---- MODULE Spec2Model ----
(***************************************************************************)
(* Election state machine of pebble-core/voting: the phase function, the   *)
(* Election API (PostCredential, GetCredentialSet, Vote,                   *)
(* RevealBallotDecryption, PostBallotDecryption, Progress) over the        *)
(* broadcast log, and the server's message endpoint that appends to it.    *)
(***************************************************************************)
EXTENDS Integers, Sequences, FiniteSets, Bags, TLC

(* ------------------------------ bounds -------------------------------- *)
\* the number of distinct public-key hashes offered to a roster
NumHashes == 3
\* the number of distinct id commitments offered to a roster
NumCommitments == 2
\* roster members 1..NumEligible; client NumEligible+1 holds a key that is
\* not on the roster
NumEligible == 3
\* len(params.Choices)
NumChoices == 2
\* the clock runs over 0..MaxTime
MaxTime == 3
\* cap on the length of the broadcast log
MaxLog == 4
\* cap on the number of VDF puzzles created
MaxVdf == 2
\* cap on the number of messages handed to the server directly
MaxServerPosts == 1
\* cap on the length of the log when the API runs a suspension at a time
MaxStepLog == 3
\* cap on the length of the log when the channel is driven alone
MaxChannelLog == 2

Roster == 1..NumEligible
Outsider == NumEligible + 1
Clients == Roster \cup {Outsider}
\* the clients that act when the API is driven with failures and with
\* messages handed to the server: one roster member and the outsider
Actors == {1, Outsider}
Choices == 0..(NumChoices - 1)

(* --------------------------- ElectionPhase ---------------------------- *)
Setup == 0
CredGen == 1
Cast == 2
Tally == 3
End == 4

(* ------------------------------ errors -------------------------------- *)
ErrNil == "nil"
ErrWrongPhase == "pebble: wrong election phase"
ErrDecryptionNotFound == "pebble: ballot decryption not found"
ErrDecrypt == "decrypt failed"
ErrSecrets == "secrets manager failed"
ErrSign == "sign failed"
ErrVerify == "verify failed"
ErrPost == "post failed"

(* --------------------- collaborators, by contract --------------------- *)
\* util.Hash: an injective tagging of its argument
Hash(x) == <<"hash", x>>

\* client c holds the identity key c and the secret credential c
PublicKeyOf(c) == <<"pk", c>>
PublicOf(sec) == <<"cred", sec>>
SerialNoOf(sec) == <<"serial", sec>>

\* the roster of the election: the hashes of the eligible public keys
EligibilityList == {Hash(PublicKeyOf(c)) : c \in Roster}

\* CredentialMessage.Sign(priv, id): the signature names its signer and what
\* it covers
CredentialMessageSign(c, cred) ==
    [PublicKey |-> PublicKeyOf(c), Credential |-> cred,
     Signature |-> [by |-> PublicKeyOf(c), over |-> cred]]

\* CredentialMessage.Verify(id)
CredentialMessageVerify(m) ==
    m.Signature.by = m.PublicKey /\ m.Signature.over = m.Credential

\* CredentialSystem.ReadPublicCredential: fails on bytes that are no credential
ReadPublicCredentialOk(bytes) == \E s \in Clients : bytes = PublicOf(s)

\* CredentialSystem.MakeCredentialSet: the unordered aggregation of the list
MakeCredentialSet(creds) ==
    LET vals == {creds[k] : k \in DOMAIN creds}
    IN  [v \in vals |-> Cardinality({k \in DOMAIN creds : creds[k] = v})]

\* CredentialSet.Len
SetLen(set) == BagCardinality(set)

\* VDF: the solution of the puzzle with input i
VdfOutput(i) == <<"out", i>>
VdfProof(i) == <<"proof", i>>
VdfCreate(i) == [Input |-> i, Output |-> VdfOutput(i), Proof |-> VdfProof(i)]
ZeroSolution == [Input |-> 0, Output |-> <<>>, Proof |-> <<>>]

\* VDF.Verify
VdfVerify(sol) ==
    sol.Input # 0 /\ sol.Output = VdfOutput(sol.Input) /\ sol.Proof = VdfProof(sol.Input)

\* Ballot.Encrypt(sol): the key is derived from the solution's output
Encrypt(ballot, sol) ==
    [VdfInput |-> sol.Input, Ciphertext |-> [key |-> sol.Output, plain |-> ballot]]

\* EncryptedBallot.Decrypt(sol): fails when the ballot rejects the key
DecryptOk(encBallot, sol) == encBallot.Ciphertext.key = sol.Output
Decrypt(encBallot, sol) == encBallot.Ciphertext.plain

\* EncryptedBallot.Sign(set, sec): fails when the secret's public credential
\* is absent from the set
SignOk(set, sec) == PublicOf(sec) \in DOMAIN set
Sign(encBallot, sec) ==
    [EncryptedBallot |-> encBallot, SerialNo |-> SerialNoOf(sec),
     Signature |-> [by |-> sec, over |-> encBallot]]

\* SignedBallot.Verify(set)
SignedBallotVerify(sb, set) ==
    /\ PublicOf(sb.Signature.by) \in DOMAIN set
    /\ sb.Signature.over = sb.EncryptedBallot
    /\ sb.SerialNo = SerialNoOf(sb.Signature.by)

ZeroBallot ==
    LET enc == [VdfInput |-> 0, Ciphertext |-> [key |-> <<>>, plain |-> 0]]
    IN  [EncryptedBallot |-> enc, SerialNo |-> <<>>, Signature |-> [by |-> 0, over |-> enc]]

\* structs.CreateDecryptionMessage
CreateDecryptionMessage(sol) ==
    [InputHash |-> Hash(sol.Input), Output |-> sol.Output, Proof |-> sol.Proof]

\* VotingMethod.Vote / VotingMethod.Tally for plurality
MethodVote(choice) == choice
MethodTally(decBallots) ==
    [ch \in Choices |-> Cardinality({i \in 1..Len(decBallots) : decBallots[i] = ch})]
NoTally == [ch \in {} |-> 0]

(* ------------------------------ messages ------------------------------ *)
\* Message: exactly one variant is populated
CredentialMsg(m) == [kind |-> "Credential", body |-> m]
SignedBallotMsg(m) == [kind |-> "SignedBallot", body |-> m]
DecryptionMsg(m) == [kind |-> "Decryption", body |-> m]

(* ------------------------------- state -------------------------------- *)
VARIABLES
    now,        \* time.Now()
    params,     \* ElectionParams: CastStart, TallyStart, TallyEnd
    messages,   \* MockBroadcastChannel.messages
    secrets,    \* per client, the secrets manager: ballot and solution
    nextVdf,    \* the input of the next VDF puzzle
    serverPosts, \* the number of messages handed to the server directly
    last,       \* the outcome of the most recent step
    list,       \* an EligibilityList under construction
    calls       \* per client, the call of the API that is under way

vars == <<now, params, messages, secrets, nextVdf, serverPosts, last, list, calls>>

(* ------------------------- util: the wire codec ----------------------- *)
ErrShortBuffer == "util: short buffer"

Take(p, n) == SubSeq(p, 1, n)
Drop(p, n) == SubSeq(p, n + 1, Len(p))

\* BufferWriter.WriteUint32: four bytes, big-endian
WriteUint32(v) ==
    <<(v \div 16777216) % 256, (v \div 65536) % 256, (v \div 256) % 256, v % 256>>

\* BufferWriter.WriteUint64: eight bytes, big-endian (the values written
\* here are below 2^31, so the upper four bytes are zero)
WriteUint64(v) == <<0, 0, 0, 0>> \o WriteUint32(v)

\* the length of a vector on the wire: one byte below 128, else two bytes,
\* byte(n >> 8) | 128 and byte(n); lengths from MaxVector on do not fit
MaxVector == 32768
LengthPrefix(n) ==
    IF n < 128 THEN <<n>>
    ELSE <<128 + ((n \div 256) % 128), n % 256>>

\* BufferWriter.WriteVector: the length, then the bytes
WriteVector(p) == LengthPrefix(Len(p)) \o p

\* the reader's operations take the unread bytes and return the error, the
\* value read and the bytes left
Read(p, n) ==
    IF Len(p) < n THEN [err |-> ErrShortBuffer, val |-> <<>>, rest |-> p]
    ELSE [err |-> ErrNil, val |-> Take(p, n), rest |-> Drop(p, n)]

ReadByte(p) ==
    IF Len(p) < 1 THEN [err |-> ErrShortBuffer, val |-> 0, rest |-> p]
    ELSE [err |-> ErrNil, val |-> p[1], rest |-> Drop(p, 1)]

ReadUint32(p) ==
    IF Len(p) < 4 THEN [err |-> ErrShortBuffer, val |-> 0, rest |-> p]
    ELSE [err |-> ErrNil,
          val |-> p[1] * 16777216 + p[2] * 65536 + p[3] * 256 + p[4],
          rest |-> Drop(p, 4)]

ReadUint64(p) ==
    IF Len(p) < 8 THEN [err |-> ErrShortBuffer, val |-> 0, rest |-> p]
    ELSE [err |-> ErrNil, val |-> ReadUint32(Drop(p, 4)).val, rest |-> Drop(p, 8)]

\* BufferReader.Read32: a hash value
HashSize == 32
Read32(p) == Read(p, HashSize)

ReadVector(p) ==
    LET b == ReadByte(p) IN
    IF b.err # ErrNil THEN [err |-> b.err, val |-> <<>>, rest |-> p]
    ELSE IF b.val < 128 THEN Read(b.rest, b.val)
    ELSE LET c == ReadByte(b.rest) IN
         IF c.err # ErrNil THEN [err |-> c.err, val |-> <<>>, rest |-> p]
         ELSE Read(c.rest, (b.val - 128) * 256 + c.val)

ReadRemaining(p) == p

(* --------------------------- EligibilityList -------------------------- *)
ellMagic == 1162628097     \* 0x454c4c01
ErrDuplicateKey == "pebble: duplicate key in EligibilityList"
ErrUnknownMagic == "pebble: unknown EligibilityList magic"
\* the run-time panic of a write to a nil map
PanicNilMap == "panic: assignment to entry in nil map"

\* a Go map: nil, or made and holding entries; a read of a nil map finds
\* nothing, a write to it panics
NilMap == [isNil |-> TRUE, entries |-> <<>>]
MakeMap == [isNil |-> FALSE, entries |-> <<>>]
MapHas(mp, k) == k \in DOMAIN mp.entries
MapGet(mp, k) == mp.entries[k]
MapSet(mp, k, v) ==
    [mp EXCEPT !.entries = [x \in (DOMAIN mp.entries) \cup {k} |->
                               IF x = k THEN v ELSE mp.entries[x]]]

NewEligibilityList == [publicKeyHashes |-> <<>>, idCommitments |-> MakeMap]

\* variant: a key already present gets the new commitment
AddOverwrites(l, pkh, idCom) ==
    IF l.idCommitments.isNil
    THEN [ok |-> FALSE, panic |-> TRUE,
          list |-> [l EXCEPT !.publicKeyHashes = Append(@, pkh)]]
    ELSE IF MapHas(l.idCommitments, pkh)
    THEN [ok |-> FALSE, panic |-> FALSE,
          list |-> [l EXCEPT !.idCommitments = MapSet(@, pkh, idCom)]]
    ELSE [ok |-> TRUE, panic |-> FALSE,
          list |-> [publicKeyHashes |-> Append(l.publicKeyHashes, pkh),
                    idCommitments |-> MapSet(l.idCommitments, pkh, idCom)]]

\* EligibilityList.Add: the result, whether the call panicked, and the list
\* after the call
Add(l, pkh, idCom) ==
    IF MapHas(l.idCommitments, pkh)
    THEN [ok |-> FALSE, panic |-> FALSE, list |-> l]
    ELSE IF l.idCommitments.isNil
    THEN [ok |-> FALSE, panic |-> TRUE,
          list |-> [l EXCEPT !.publicKeyHashes = Append(@, pkh)]]
    ELSE [ok |-> TRUE, panic |-> FALSE,
          list |-> [publicKeyHashes |-> Append(l.publicKeyHashes, pkh),
                    idCommitments |-> MapSet(l.idCommitments, pkh, idCom)]]

IdCommitment(l, pkh) ==
    IF MapHas(l.idCommitments, pkh)
    THEN [idCom |-> MapGet(l.idCommitments, pkh), ok |-> TRUE]
    ELSE [idCom |-> [i \in 1..HashSize |-> 0], ok |-> FALSE]

Contains(l, pkh) == MapHas(l.idCommitments, pkh)

\* EligibilityList.Bytes
RECURSIVE ListBytesLoop(_, _)
ListBytesLoop(l, i) ==
    IF i > Len(l.publicKeyHashes) THEN <<>>
    ELSE LET pkh == l.publicKeyHashes[i]
         IN  pkh \o IdCommitment(l, pkh).idCom \o ListBytesLoop(l, i + 1)

ListBytes(l) == WriteUint32(ellMagic) \o ListBytesLoop(l, 1)

\* the loop of FromBytes: a pair at a time until the buffer is empty
RECURSIVE ListFromBytesLoop(_, _)
ListFromBytesLoop(l, p) ==
    IF Len(p) = 0 THEN [err |-> ErrNil, list |-> l]
    ELSE LET pkh == Read32(p) IN
         IF pkh.err # ErrNil THEN [err |-> pkh.err, list |-> l]
         ELSE LET idCom == Read32(pkh.rest) IN
              IF idCom.err # ErrNil THEN [err |-> idCom.err, list |-> l]
              ELSE LET a == Add(l, pkh.val, idCom.val) IN
                   IF a.panic THEN [err |-> PanicNilMap, list |-> a.list]
                   ELSE IF ~a.ok THEN [err |-> ErrDuplicateKey, list |-> a.list]
                   ELSE ListFromBytesLoop(a.list, idCom.rest)

\* EligibilityList.FromBytes: the error (or the panic) and the list after
\* the call
ListFromBytes(l, p) ==
    LET mg == ReadUint32(p) IN
    IF mg.err # ErrNil THEN [err |-> mg.err, list |-> l]
    ELSE IF mg.val # ellMagic THEN [err |-> ErrUnknownMagic, list |-> l]
    ELSE ListFromBytesLoop([publicKeyHashes |-> <<>>, idCommitments |-> NilMap], mg.rest)

(* ------------------------------ base32c -------------------------------- *)
ErrChecksum == "base32c: invalid checksum"
ErrBase32 == "base32c: invalid string"

\* the sum of the bytes p[lo..hi]
RECURSIVE SumBytes(_, _, _)
SumBytes(p, lo, hi) ==
    IF lo > hi THEN 0
    ELSE IF lo = hi THEN p[lo]
    ELSE LET mid == (lo + hi) \div 2
         IN  SumBytes(p, lo, mid) + SumBytes(p, mid + 1, hi)

\* the check bytes of a buffer
Checksum(p) ==
    LET t == SumBytes(p, 1, Len(p)) + Len(p)
    IN  <<(t \div 256) % 256, t % 256>>

\* digit i of a sequence, zero past its end
At(d, i) == IF i > Len(d) THEN 0 ELSE d[i]

\* the five bits that start at bit k (from 0) of a sequence of bytes
FiveBits(p, k) ==
    LET i == (k \div 8) + 1
    IN  ((At(p, i) * 256 + At(p, i + 1)) \div (2 ^ (11 - (k % 8)))) % 32

\* the eight bits that start at bit k (from 0) of a sequence of base-32 digits
EightBits(d, k) ==
    LET i == (k \div 5) + 1
    IN  ((At(d, i) * 1024 + At(d, i + 1) * 32 + At(d, i + 2))
            \div (2 ^ (7 - (k % 5)))) % 256

\* base32c.CheckEncode: the buffer and its check bytes as base-32 digits,
\* the last digit padded with zero bits (a string is the sequence of its
\* digits, 0..31)
CheckEncode(p) ==
    LET q == p \o Checksum(p)
        n == (8 * Len(q) + 4) \div 5
    IN  [j \in 1..n |-> FiveBits(q, 5 * (j - 1))]

\* base32c.CheckDecode: the digits back to bytes, the padding and the check
\* bytes verified
CheckDecode(str) ==
    LET n == (5 * Len(str)) \div 8
        q == [i \in 1..n |-> EightBits(str, 8 * (i - 1))]
    IN  IF n < 2 \/ str[Len(str)] % (2 ^ (5 * Len(str) - 8 * n)) # 0
        THEN [err |-> ErrBase32, val |-> <<>>]
        ELSE IF Drop(q, n - 2) # Checksum(Take(q, n - 2))
        THEN [err |-> ErrChecksum, val |-> <<>>]
        ELSE [err |-> ErrNil, val |-> Take(q, n - 2)]

(* ----------------------------- Invitation ----------------------------- *)
ErrUnknownInvitationVersion == "pebble: unknown invitation version"
invitationVersion == 459851520     \* 0x1b68c700

\* the loop of String over the servers
RECURSIVE ServersBytes(_, _)
ServersBytes(servers, i) ==
    IF i > Len(servers) THEN <<>>
    ELSE WriteVector(servers[i]) \o ServersBytes(servers, i + 1)

\* variant: the invitation without its network
InvitationStringNoNetwork(inv) ==
    CheckEncode(WriteUint32(invitationVersion)
        \o WriteVector(inv.Address)
        \o <<Len(inv.Servers) % 256>>
        \o ServersBytes(inv.Servers, 1))

\* Invitation.String
InvitationString(inv) ==
    CheckEncode(WriteUint32(invitationVersion)
        \o WriteVector(inv.Network)
        \o WriteVector(inv.Address)
        \o <<Len(inv.Servers) % 256>>
        \o ServersBytes(inv.Servers, 1))

\* the loop of DecodeInvitation over the servers: n vectors; a failure keeps
\* the servers read so far
RECURSIVE ReadServers(_, _)
ReadServers(b, n) ==
    IF n = 0 THEN [err |-> ErrNil, val |-> <<>>]
    ELSE LET v == ReadVector(b) IN
         IF v.err # ErrNil THEN [err |-> v.err, val |-> [i \in 1..n |-> <<>>]]
         ELSE LET more == ReadServers(v.rest, n - 1)
              IN  [err |-> more.err, val |-> <<v.val>> \o more.val]

ZeroInvitation == [Network |-> <<>>, Address |-> <<>>, Servers |-> <<>>]

\* DecodeInvitation: the error and the invitation returned
DecodeInvitation(str) ==
    LET p == CheckDecode(str) IN
    IF p.err # ErrNil THEN [err |-> p.err, inv |-> ZeroInvitation]
    ELSE LET v == ReadUint32(p.val) IN
    IF v.err # ErrNil THEN [err |-> v.err, inv |-> ZeroInvitation]
    ELSE IF v.val # invitationVersion
    THEN [err |-> ErrUnknownInvitationVersion, inv |-> ZeroInvitation]
    ELSE LET nw == ReadVector(v.rest) IN
    IF nw.err # ErrNil THEN [err |-> nw.err, inv |-> ZeroInvitation]
    ELSE LET ad == ReadVector(nw.rest)
             i1 == [ZeroInvitation EXCEPT !.Network = nw.val] IN
    IF ad.err # ErrNil THEN [err |-> ad.err, inv |-> i1]
    ELSE LET ns == ReadByte(ad.rest)
             i2 == [i1 EXCEPT !.Address = ad.val] IN
    IF ns.err # ErrNil THEN [err |-> ns.err, inv |-> i2]
    ELSE LET sv == ReadServers(ns.rest, ns.val)
         IN  [err |-> sv.err, inv |-> [i2 EXCEPT !.Servers = sv.val]]

(* ----------------------- ElectionParams: the codec --------------------- *)
errUnknownVersion == "pebble: unknown ElectionParams version"

\* the loop of Bytes over the choices
RECURSIVE ChoicesBytes(_, _)
ChoicesBytes(choices, i) ==
    IF i > Len(choices) THEN <<>>
    ELSE WriteVector(choices[i]) \o ChoicesBytes(choices, i + 1)

\* ElectionParams.Bytes; strings are their bytes, times their Unix seconds
ParamsBytes(p) ==
    WriteUint32(p.Version)
        \o WriteUint64(p.CastStart) \o WriteUint64(p.TallyStart) \o WriteUint64(p.TallyEnd)
        \o WriteUint64(p.MaxVdfDifficulty)
        \o WriteVector(p.VotingMethod) \o WriteVector(p.Title) \o WriteVector(p.Description)
        \o <<Len(p.Choices) % 256>>
        \o ChoicesBytes(p.Choices, 1)
        \o ListBytes(p.EligibilityList)

\* the loop of FromBytes over the choices: n vectors
RECURSIVE ReadChoices(_, _)
ReadChoices(b, n) ==
    IF n = 0 THEN [err |-> ErrNil, val |-> <<>>, rest |-> b]
    ELSE LET v == ReadVector(b) IN
         IF v.err # ErrNil THEN [err |-> v.err, val |-> <<>>, rest |-> b]
         ELSE LET more == ReadChoices(v.rest, n - 1)
              IN  [err |-> more.err, val |-> <<v.val>> \o more.val, rest |-> more.rest]

ZeroParams ==
    [Version |-> 0, CastStart |-> 0, TallyStart |-> 0, TallyEnd |-> 0,
     MaxVdfDifficulty |-> 0, VotingMethod |-> <<>>, Title |-> <<>>,
     Description |-> <<>>, Choices |-> <<>>,
     EligibilityList |-> [publicKeyHashes |-> <<>>, idCommitments |-> NilMap]]

\* ElectionParams.FromBytes: the error (or the panic) and the params as the
\* call leaves them
ParamsFromBytes(b) ==
    LET ver == ReadUint32(b) IN
    IF ver.err # ErrNil THEN [err |-> ver.err, params |-> ZeroParams]
    ELSE LET p1 == [ZeroParams EXCEPT !.Version = ver.val] IN
    IF ver.val # 0 THEN [err |-> errUnknownVersion, params |-> p1]
    ELSE LET cs == ReadUint64(ver.rest) IN
    IF cs.err # ErrNil THEN [err |-> cs.err, params |-> p1]
    ELSE LET ts == ReadUint64(cs.rest)
             p2 == [p1 EXCEPT !.CastStart = cs.val] IN
    IF ts.err # ErrNil THEN [err |-> ts.err, params |-> p2]
    ELSE LET te == ReadUint64(ts.rest)
             p3 == [p2 EXCEPT !.TallyStart = ts.val] IN
    IF te.err # ErrNil THEN [err |-> te.err, params |-> p3]
    ELSE LET md == ReadUint64(te.rest)
             p4 == [p3 EXCEPT !.TallyEnd = te.val] IN
    IF md.err # ErrNil THEN [err |-> md.err, params |-> p4]
    ELSE LET vm == ReadVector(md.rest)
             p5 == [p4 EXCEPT !.MaxVdfDifficulty = md.val] IN
    IF vm.err # ErrNil THEN [err |-> vm.err, params |-> p5]
    ELSE LET ti == ReadVector(vm.rest)
             p6 == [p5 EXCEPT !.VotingMethod = vm.val] IN
    IF ti.err # ErrNil THEN [err |-> ti.err, params |-> p6]
    ELSE LET de == ReadVector(ti.rest)
             p7 == [p6 EXCEPT !.Title = ti.val] IN
    IF de.err # ErrNil THEN [err |-> de.err, params |-> p7]
    ELSE LET nc == ReadByte(de.rest)
             p8 == [p7 EXCEPT !.Description = de.val] IN
    IF nc.err # ErrNil THEN [err |-> nc.err, params |-> p8]
    ELSE LET ch == ReadChoices(nc.rest, nc.val) IN
    IF ch.err # ErrNil THEN [err |-> ch.err, params |-> p8]
    ELSE LET el == ListFromBytes(NewEligibilityList, ReadRemaining(ch.rest))
         IN  [err |-> el.err,
              params |-> [p8 EXCEPT !.Choices = ch.val, !.EligibilityList = el.list]]

(* ------------------------ messages on the wire ------------------------ *)
ErrInvalidMessageType == "pebble: invalid message type"
ErrInvalidMessageSize == "pebble: invalid message size"
PanicInvalidMessageType == "panic: pebble: invalid message type"

\* n vectors read one after the other
RECURSIVE ReadVectors(_, _)
ReadVectors(b, n) ==
    IF n = 0 THEN [err |-> ErrNil, val |-> <<>>, rest |-> b]
    ELSE LET v == ReadVector(b) IN
         IF v.err # ErrNil THEN [err |-> v.err, val |-> <<>>, rest |-> b]
         ELSE LET more == ReadVectors(v.rest, n - 1)
              IN  [err |-> more.err, val |-> <<v.val>> \o more.val, rest |-> more.rest]

\* structs.CredentialMessage: public key, credential and signature
CredentialBytes(c) ==
    WriteVector(c.PublicKey) \o WriteVector(c.Credential) \o WriteVector(c.Signature)

CredentialFromBytes(b) ==
    LET r == ReadVectors(b, 3) IN
    IF r.err # ErrNil THEN [err |-> r.err, val |-> <<>>]
    ELSE [err |-> ErrNil,
          val |-> [PublicKey |-> r.val[1], Credential |-> r.val[2], Signature |-> r.val[3]]]

\* structs.SignedBallot: encrypted ballot, serial number and signature
SignedBallotBytes(sb) ==
    WriteVector(sb.EncryptedBallot) \o WriteVector(sb.SerialNo) \o WriteVector(sb.Signature)

SignedBallotFromBytes(b) ==
    LET r == ReadVectors(b, 3) IN
    IF r.err # ErrNil THEN [err |-> r.err, val |-> <<>>]
    ELSE [err |-> ErrNil,
          val |-> [EncryptedBallot |-> r.val[1], SerialNo |-> r.val[2],
                   Signature |-> r.val[3]]]

\* structs.DecryptionMessage: input hash, output and proof
DecryptionBytes(d) == d.InputHash \o WriteVector(d.Output) \o WriteVector(d.Proof)

DecryptionFromBytes(b) ==
    LET h == Read32(b) IN
    IF h.err # ErrNil THEN [err |-> h.err, val |-> <<>>]
    ELSE LET r == ReadVectors(h.rest, 2) IN
         IF r.err # ErrNil THEN [err |-> r.err, val |-> <<>>]
         ELSE [err |-> ErrNil,
               val |-> [InputHash |-> h.val, Output |-> r.val[1], Proof |-> r.val[2]]]

\* Message: the one field that is set, and what it points to; no field set
\* is the zero Message
ZeroMessage == [kind |-> "None", body |-> <<>>]

\* the variant a phase byte names
VariantOf(tag) ==
    IF tag = Setup THEN "ElectionParams"
    ELSE IF tag = CredGen THEN "Credential"
    ELSE IF tag = Cast THEN "SignedBallot"
    ELSE IF tag = Tally THEN "Decryption"
    ELSE "None"

\* Message.Bytes: the phase byte of the field that is set, then its bytes;
\* err is the panic of a Message with no field set
MessageBytes(m) ==
    IF m.kind = "ElectionParams"
    THEN [err |-> ErrNil, val |-> <<Setup>> \o ParamsBytes(m.body)]
    ELSE IF m.kind = "Credential"
    THEN [err |-> ErrNil, val |-> <<CredGen>> \o CredentialBytes(m.body)]
    ELSE IF m.kind = "SignedBallot"
    THEN [err |-> ErrNil, val |-> <<Cast>> \o SignedBallotBytes(m.body)]
    ELSE IF m.kind = "Decryption"
    THEN [err |-> ErrNil, val |-> <<Tally>> \o DecryptionBytes(m.body)]
    ELSE [err |-> PanicInvalidMessageType, val |-> <<>>]

\* the Message of a params decoder's result r; a decoder that panicked
\* leaves no Message
ParamsMessage(r) ==
    IF r.err = PanicNilMap THEN [err |-> r.err, m |-> ZeroMessage]
    ELSE [err |-> r.err, m |-> [kind |-> "ElectionParams", body |-> r.params]]

\* MessageFromBytes: the error (or the panic of the params' decoder) and
\* the Message; a call that panics returns nothing
MessageFromBytes(p) ==
    IF Len(p) < 1 THEN [err |-> ErrInvalidMessageSize, m |-> ZeroMessage]
    ELSE IF p[1] = Setup
    THEN ParamsMessage(ParamsFromBytes(Drop(p, 1)))
    ELSE IF p[1] = CredGen
    THEN LET r == CredentialFromBytes(Drop(p, 1))
         IN  [err |-> r.err, m |-> [kind |-> "Credential", body |-> r.val]]
    ELSE IF p[1] = Cast
    THEN LET r == SignedBallotFromBytes(Drop(p, 1))
         IN  [err |-> r.err, m |-> [kind |-> "SignedBallot", body |-> r.val]]
    ELSE IF p[1] = Tally
    THEN LET r == DecryptionFromBytes(Drop(p, 1))
         IN  [err |-> r.err, m |-> [kind |-> "Decryption", body |-> r.val]]
    ELSE [err |-> ErrInvalidMessageType, m |-> ZeroMessage]

\* the body of the server's answer to GET /messages: for each message of the
\* log, the length of its bytes and the bytes
RECURSIVE ServerGet(_, _)
ServerGet(msgs, i) ==
    IF i > Len(msgs) THEN <<>>
    ELSE LET p == MessageBytes(msgs[i]).val
         IN  LengthPrefix(Len(p)) \o p \o ServerGet(msgs, i + 1)

\* variant: an entry that does not parse makes Get fail
RECURSIVE ClientGetStrict(_, _)
ClientGetStrict(buf, msgs) ==
    IF Len(buf) = 0 THEN [err |-> ErrNil, msgs |-> msgs]
    ELSE LET kind == ReadByte(buf) IN
    IF kind.err # ErrNil THEN [err |-> kind.err, msgs |-> <<>>]
    ELSE LET m == ReadVector(kind.rest) IN
    IF m.err # ErrNil THEN [err |-> m.err, msgs |-> <<>>]
    ELSE LET r == IF kind.val = CredGen THEN CredentialFromBytes(m.val)
                  ELSE IF kind.val = Cast THEN SignedBallotFromBytes(m.val)
                  ELSE IF kind.val = Tally THEN DecryptionFromBytes(m.val)
                  ELSE [err |-> ErrInvalidMessageType, val |-> <<>>]
         IN  IF r.err # ErrNil THEN [err |-> r.err, msgs |-> <<>>]
             ELSE ClientGetStrict(m.rest,
                     Append(msgs, [kind |-> VariantOf(kind.val), body |-> r.val]))

\* BroadcastClient.Get, from the body of the answer on: the loop reads a
\* kind byte and a vector, and appends the message if the vector parses as
\* the kind's variant
RECURSIVE ClientGet(_, _)
ClientGet(buf, msgs) ==
    IF Len(buf) = 0 THEN [err |-> ErrNil, msgs |-> msgs]
    ELSE LET kind == ReadByte(buf) IN
    IF kind.err # ErrNil THEN [err |-> kind.err, msgs |-> <<>>]
    ELSE LET m == ReadVector(kind.rest) IN
    IF m.err # ErrNil THEN [err |-> m.err, msgs |-> <<>>]
    ELSE LET r == IF kind.val = CredGen THEN CredentialFromBytes(m.val)
                  ELSE IF kind.val = Cast THEN SignedBallotFromBytes(m.val)
                  ELSE IF kind.val = Tally THEN DecryptionFromBytes(m.val)
                  ELSE [err |-> ErrInvalidMessageType, val |-> <<>>]
         IN  ClientGet(m.rest,
                 IF r.err = ErrNil
                 THEN Append(msgs, [kind |-> VariantOf(kind.val), body |-> r.val])
                 ELSE msgs)

(* -------------------------------- keys -------------------------------- *)
ErrInvalidKeyLength == "pebble: invalid key length"
ErrUnknownKeyType == "pebble: unknown key type"
ErrInvalidSignature == "pebble: invalid signature"
ErrTezosKey == "tezos: invalid key"

\* crypto/ed25519: the public key of a seed is 32 bytes; a signature names
\* the public key of its signer and the bytes signed
PublicKeySize == 32
Ed25519Public(seed) == [i \in 1..PublicKeySize |-> seed]
Ed25519Sign(seed, msg) == [signer |-> Ed25519Public(seed), msg |-> msg]
Ed25519Verify(pk, msg, sig) == sig = [signer |-> pk, msg |-> msg]

\* tzgo: the bytes of a public key are the curve's tag (0 for ed25519) and
\* the key; DecodeKey reads them back
TezosKeyBytes(seed) == <<0>> \o Ed25519Public(seed)
TezosDecodeKey(b) ==
    IF Len(b) = PublicKeySize + 1 /\ b[1] = 0
    THEN [err |-> ErrNil, key |-> Drop(b, 1)]
    ELSE [err |-> ErrTezosKey, key |-> <<>>]

\* tzgo: the text of a public key is its base58 form, which starts with the
\* letters edpk; a text is the sequence of the codes of its letters, and the
\* key's bytes stand for the letters after the prefix
TezosKeyPrefix == <<101, 100, 112, 107>>
TezosKeyString(key) == TezosKeyPrefix \o key
TezosUnmarshalText(str) ==
    IF Len(str) = Len(TezosKeyPrefix) + PublicKeySize
          /\ Take(str, Len(TezosKeyPrefix)) = TezosKeyPrefix
    THEN [err |-> ErrNil, bytes |-> <<0>> \o Drop(str, Len(TezosKeyPrefix))]
    ELSE [err |-> ErrTezosKey, bytes |-> <<>>]

\* pubkey/pubkey.go: the key type is a field of the private key
KeyTypeEd25519 == 0
KeyTypeTezos == 1

\* GenerateKey; seed stands for the randomness read
GenerateKey(keyType, seed) ==
    IF keyType = KeyTypeEd25519
    THEN [err |-> ErrNil, t |-> keyType, p |-> Ed25519Public(seed), s |-> seed]
    ELSE IF keyType = KeyTypeTezos
    THEN [err |-> ErrNil, t |-> keyType, p |-> TezosKeyBytes(seed), s |-> seed]
    ELSE [err |-> ErrUnknownKeyType, t |-> 0, p |-> <<>>, s |-> 0]

\* PrivateKey.Sign
KeySign(k, msg) ==
    IF k.t = KeyTypeEd25519 THEN [err |-> ErrNil, sig |-> Ed25519Sign(k.s, msg)]
    ELSE IF k.t = KeyTypeTezos THEN [err |-> ErrNil, sig |-> Ed25519Sign(k.s, Hash(msg))]
    ELSE [err |-> ErrUnknownKeyType, sig |-> <<>>]

\* PublicKey.Verify: the key type is taken from the first byte of the key
KeyVerify(k, msg, sig) ==
    IF Len(k) = 0 THEN ErrInvalidKeyLength
    ELSE IF k[1] = KeyTypeEd25519
    THEN IF Len(k) - 1 # PublicKeySize THEN ErrInvalidKeyLength
         ELSE IF ~Ed25519Verify(Drop(k, 1), msg, sig) THEN ErrInvalidSignature
         ELSE ErrNil
    ELSE IF k[1] = KeyTypeTezos
    THEN LET pk == TezosDecodeKey(Drop(k, 1)) IN
         IF pk.err # ErrNil THEN pk.err
         ELSE IF ~Ed25519Verify(pk.key, Hash(msg), sig) THEN ErrInvalidSignature
         ELSE ErrNil
    ELSE ErrUnknownKeyType

\* package pubkey as anoncred/anoncred1_instance.go has it: the key type is
\* the first byte of the public key
TaggedKeyTypeEd25519 == 1
TaggedKeyTypeTezos == 2

newPublicKey(t, k) == <<t>> \o k

TaggedGenerateKey(keyType, seed) ==
    IF keyType = TaggedKeyTypeEd25519
    THEN [err |-> ErrNil, p |-> newPublicKey(keyType, Ed25519Public(seed)), s |-> seed]
    ELSE IF keyType = TaggedKeyTypeTezos
    THEN [err |-> ErrNil, p |-> newPublicKey(keyType, TezosKeyBytes(seed)), s |-> seed]
    ELSE [err |-> ErrUnknownKeyType, p |-> <<>>, s |-> 0]

\* PublicKey.Type
KeyType(k) == IF Len(k) < 1 THEN 0 ELSE k[1]

TaggedKeySign(k, msg) ==
    IF KeyType(k.p) = TaggedKeyTypeEd25519
    THEN [err |-> ErrNil, sig |-> Ed25519Sign(k.s, msg)]
    ELSE IF KeyType(k.p) = TaggedKeyTypeTezos
    THEN [err |-> ErrNil, sig |-> Ed25519Sign(k.s, Hash(msg))]
    ELSE [err |-> ErrUnknownKeyType, sig |-> <<>>]

TaggedKeyVerify(k, msg, sig) ==
    IF Len(k) = 0 THEN ErrInvalidKeyLength
    ELSE IF k[1] = TaggedKeyTypeEd25519
    THEN IF Len(k) - 1 # PublicKeySize THEN ErrInvalidKeyLength
         ELSE IF ~Ed25519Verify(Drop(k, 1), msg, sig) THEN ErrInvalidSignature
         ELSE ErrNil
    ELSE IF k[1] = TaggedKeyTypeTezos
    THEN LET pk == TezosDecodeKey(Drop(k, 1)) IN
         IF pk.err # ErrNil THEN pk.err
         ELSE IF ~Ed25519Verify(pk.key, Hash(msg), sig) THEN ErrInvalidSignature
         ELSE ErrNil
    ELSE ErrUnknownKeyType

\* PublicKey.String: an ed25519 key as base32c digits behind the bytes 238
\* and 78, a Tezos key as the text tzgo gives it
KeyString(k) ==
    IF Len(k) = 0 THEN [err |-> ErrInvalidKeyLength, str |-> <<>>]
    ELSE IF k[1] = TaggedKeyTypeEd25519
    THEN [err |-> ErrNil, str |-> CheckEncode(<<238, 78>> \o Drop(k, 1))]
    ELSE IF k[1] = TaggedKeyTypeTezos
    THEN LET pk == TezosDecodeKey(Drop(k, 1)) IN
         IF pk.err # ErrNil THEN [err |-> pk.err, str |-> <<>>]
         ELSE [err |-> ErrNil, str |-> TezosKeyString(pk.key)]
    ELSE [err |-> ErrUnknownKeyType, str |-> <<>>]

\* the two prefixes Parse looks for: the base32c digits of the letters EPK,
\* which the bytes 238 and 78 encode to, and the codes of the letters tz
EPK == <<29, 25, 7>>
Tz == <<116, 122>>

\* strings.HasPrefix
HasPrefix(str, prefix) == Len(str) >= Len(prefix) /\ Take(str, Len(prefix)) = prefix

\* Parse
KeyParse(str) ==
    IF HasPrefix(str, EPK)
    THEN LET p == CheckDecode(str) IN
         IF p.err # ErrNil THEN [err |-> p.err, key |-> <<>>]
         ELSE IF Len(p.val) < 3 \/ p.val[1] # 238 \/ p.val[2] # 78
         THEN [err |-> ErrUnknownKeyType, key |-> <<>>]
         ELSE [err |-> ErrNil, key |-> newPublicKey(TaggedKeyTypeEd25519, Drop(p.val, 2))]
    ELSE IF HasPrefix(str, Tz)
    THEN LET key == TezosUnmarshalText(str) IN
         IF key.err # ErrNil THEN [err |-> key.err, key |-> <<>>]
         ELSE [err |-> ErrNil, key |-> newPublicKey(TaggedKeyTypeTezos, key.bytes)]
    ELSE [err |-> ErrUnknownKeyType, key |-> <<>>]

(* --------------------------- phase function --------------------------- *)
\* time.Time.Before
Before(t, u) == t < u

\* variant: the boundaries are taken inclusive on the right
PhaseInclusive(p, t) ==
    IF t <= p.CastStart THEN CredGen
    ELSE IF t <= p.TallyStart THEN Cast
    ELSE IF t <= p.TallyEnd THEN Tally
    ELSE End

\* variant: the first comparison is inverted
PhaseInverted(p, t) ==
    IF ~Before(t, p.CastStart) THEN CredGen
    ELSE IF Before(t, p.TallyStart) THEN Cast
    ELSE IF Before(t, p.TallyEnd) THEN Tally
    ELSE End

Phase(p, t) ==
    IF Before(t, p.CastStart) THEN CredGen
    ELSE IF Before(t, p.TallyStart) THEN Cast
    ELSE IF Before(t, p.TallyEnd) THEN Tally
    ELSE End

(* -------------------------- phase conditions --------------------------- *)
\* variant: PostCredential also accepted in Cast
PostCredentialUpToCast(ph) == ph <= Cast

\* PostCredential: e.params.Phase() != CredGen returns ErrWrongPhase
PostCredentialAllowed(ph) == ph = CredGen

\* variant: GetCredentialSet refused only before CredGen
GetCredentialSetFromCredGen(ph) == ~(ph < CredGen)

\* GetCredentialSet: e.params.Phase() <= CredGen returns ErrWrongPhase
GetCredentialSetAllowed(ph) == ~(ph <= CredGen)

\* variant: Vote accepted from Cast on
VoteFromCast(ph) == ph >= Cast

\* Vote: e.params.Phase() != Cast returns ErrWrongPhase
VoteAllowed(ph) == ph = Cast

\* variant: decryptions accepted from Tally on
PostBallotDecryptionFromTally(ph) == ph >= Tally

\* PostBallotDecryption: e.params.Phase() != Tally returns ErrWrongPhase
PostBallotDecryptionAllowed(ph) == ph = Tally

\* variant: only Setup returns early
ProgressPhaseOnlySetup(ph) == ph < CredGen

\* Progress: p.Phase <= CredGen returns the phase only
ProgressPhaseOnly(ph) == ph <= CredGen

\* variant: ballots are decrypted from Cast on
ProgressDecryptsFromCast(ph) == ph >= Cast

\* variant: ballots are decrypted in Tally only
ProgressDecryptsInTally(ph) == ph = Tally

\* Progress: ballots are decrypted if p.Phase >= Tally
ProgressDecrypts(ph) == ph >= Tally

(* -------------------------- GetCredentialSet -------------------------- *)
\* variant: every accepted credential message adds an entry of its own
RECURSIVE CredsLoopPerMessage(_, _, _)
CredsLoopPerMessage(msgs, i, creds) ==
    IF i > Len(msgs) THEN creds
    ELSE LET msg == msgs[i] IN
         IF msg.kind # "Credential" THEN CredsLoopPerMessage(msgs, i + 1, creds)
         ELSE IF ~CredentialMessageVerify(msg.body) THEN CredsLoopPerMessage(msgs, i + 1, creds)
         ELSE IF ~ReadPublicCredentialOk(msg.body.Credential)
         THEN CredsLoopPerMessage(msgs, i + 1, creds)
         ELSE LET key == Hash(Append(msg.body.PublicKey, i))
              IN  CredsLoopPerMessage(msgs, i + 1,
                     [k \in (DOMAIN creds) \cup {key} |->
                        IF k = key THEN msg.body.Credential ELSE creds[k]])

\* variant: a key that already has an entry keeps it
RECURSIVE CredsLoopKeepsFirst(_, _, _)
CredsLoopKeepsFirst(msgs, i, creds) ==
    IF i > Len(msgs) THEN creds
    ELSE LET msg == msgs[i] IN
         IF msg.kind # "Credential" THEN CredsLoopKeepsFirst(msgs, i + 1, creds)
         ELSE IF ~CredentialMessageVerify(msg.body) THEN CredsLoopKeepsFirst(msgs, i + 1, creds)
         ELSE IF ~ReadPublicCredentialOk(msg.body.Credential)
         THEN CredsLoopKeepsFirst(msgs, i + 1, creds)
         ELSE LET pkh == Hash(msg.body.PublicKey)
              IN  CredsLoopKeepsFirst(msgs, i + 1,
                     [k \in (DOMAIN creds) \cup {pkh} |->
                        IF k \in DOMAIN creds THEN creds[k] ELSE msg.body.Credential])

\* the loop over msgs filling the map creds, keyed by the public key's hash
RECURSIVE CredsLoop(_, _, _)
CredsLoop(msgs, i, creds) ==
    IF i > Len(msgs) THEN creds
    ELSE LET msg == msgs[i] IN
         IF msg.kind # "Credential" THEN CredsLoop(msgs, i + 1, creds)
         ELSE IF ~CredentialMessageVerify(msg.body) THEN CredsLoop(msgs, i + 1, creds)
         ELSE IF ~ReadPublicCredentialOk(msg.body.Credential) THEN CredsLoop(msgs, i + 1, creds)
         ELSE LET pkh == Hash(msg.body.PublicKey)
              IN  CredsLoop(msgs, i + 1,
                     [k \in (DOMAIN creds) \cup {pkh} |->
                        IF k = pkh THEN msg.body.Credential ELSE creds[k]])

\* the result: err, the set, and (for the properties) the keys of the map
\* and the number of reads of the log
GetCredentialSet(ph, msgs) ==
    IF ~GetCredentialSetAllowed(ph)
    THEN [err |-> ErrWrongPhase, set |-> EmptyBag, pkhs |-> {}, reads |-> 0]
    ELSE LET creds == CredsLoop(msgs, 1, [k \in {} |-> 0])
         IN  [err |-> ErrNil, set |-> MakeCredentialSet(creds),
              pkhs |-> DOMAIN creds, reads |-> 1]

(* ---------------------------- decryptBallot --------------------------- *)
\* variant: a matching message whose proof fails ends the search
RECURSIVE decryptLoopStopsAtBadProof(_, _, _)
decryptLoopStopsAtBadProof(encBallot, msgs, i) ==
    IF i > Len(msgs) THEN [err |-> ErrDecryptionNotFound, ballot |-> 0]
    ELSE LET msg == msgs[i] IN
         IF msg.InputHash = Hash(encBallot.VdfInput)
         THEN LET sol == [Input |-> encBallot.VdfInput, Output |-> msg.Output,
                          Proof |-> msg.Proof]
              IN  IF ~VdfVerify(sol) THEN [err |-> ErrDecryptionNotFound, ballot |-> 0]
                  ELSE IF ~DecryptOk(encBallot, sol) THEN [err |-> ErrDecrypt, ballot |-> 0]
                  ELSE [err |-> ErrNil, ballot |-> Decrypt(encBallot, sol)]
         ELSE decryptLoopStopsAtBadProof(encBallot, msgs, i + 1)

RECURSIVE decryptLoop(_, _, _)
decryptLoop(encBallot, msgs, i) ==
    IF i > Len(msgs) THEN [err |-> ErrDecryptionNotFound, ballot |-> 0]
    ELSE LET msg == msgs[i] IN
         IF msg.InputHash = Hash(encBallot.VdfInput)
         THEN LET sol == [Input |-> encBallot.VdfInput, Output |-> msg.Output,
                          Proof |-> msg.Proof]
              IN  IF ~VdfVerify(sol) THEN decryptLoop(encBallot, msgs, i + 1)
                  ELSE IF ~DecryptOk(encBallot, sol) THEN [err |-> ErrDecrypt, ballot |-> 0]
                  ELSE [err |-> ErrNil, ballot |-> Decrypt(encBallot, sol)]
         ELSE decryptLoop(encBallot, msgs, i + 1)

decryptBallot(encBallot, msgs) == decryptLoop(encBallot, msgs, 1)

(* ------------------------------ Progress ------------------------------ *)
Bodies(msgs, kind) ==
    LET sel == SelectSeq(msgs, LAMBDA m : m.kind = kind)
    IN  [i \in 1..Len(sel) |-> sel[i].body]

\* the state of the loop over signBallots; err is the function's named
\* result, which the loop assigns from signBallot.Verify; counted, decrypted,
\* invalid and decryptCalls record which ballots were counted in
\* validSignBallots, validDecBallots and invalidDecBallots and how often
\* decryptBallot was invoked
LoopStart ==
    [serialNos |-> {}, decBallots |-> <<>>, validSignBallots |-> 0,
     validDecBallots |-> 0, invalidDecBallots |-> 0, err |-> ErrNil,
     counted |-> <<>>, decrypted |-> <<>>, invalid |-> <<>>, decryptCalls |-> 0]

RECURSIVE ProgressLoop(_, _, _, _, _, _)
ProgressLoop(signBallots, decMsgs, set, ph, i, acc) ==
    IF i > Len(signBallots) THEN acc
    ELSE LET signBallot == signBallots[i] IN
         IF signBallot.SerialNo \in acc.serialNos
         THEN ProgressLoop(signBallots, decMsgs, set, ph, i + 1, acc)
         ELSE IF ~SignedBallotVerify(signBallot, set)
         THEN ProgressLoop(signBallots, decMsgs, set, ph, i + 1,
                 [acc EXCEPT !.err = ErrVerify])
         ELSE LET acc1 == [acc EXCEPT !.err = ErrNil,
                                      !.validSignBallots = @ + 1,
                                      !.counted = Append(@, i)]
              IN  IF ProgressDecrypts(ph)
                  THEN LET d == decryptBallot(signBallot.EncryptedBallot, decMsgs)
                           acc2 == [acc1 EXCEPT !.decryptCalls = @ + 1]
                       IN  IF d.err # ErrNil
                           THEN IF d.err # ErrDecryptionNotFound
                                THEN ProgressLoop(signBallots, decMsgs, set, ph, i + 1,
                                        [acc2 EXCEPT !.invalidDecBallots = @ + 1,
                                                     !.invalid = Append(@, i)])
                                ELSE ProgressLoop(signBallots, decMsgs, set, ph, i + 1, acc2)
                           ELSE ProgressLoop(signBallots, decMsgs, set, ph, i + 1,
                                   [acc2 EXCEPT !.decBallots = Append(@, d.ballot),
                                                !.validDecBallots = @ + 1,
                                                !.decrypted = Append(@, i)])
                  ELSE ProgressLoop(signBallots, decMsgs, set, ph, i + 1, acc1)

ZeroProgress ==
    [err |-> ErrNil, Phase |-> Setup, Count |-> 0, Total |-> 0, Tally |-> NoTally,
     reads |-> 0, set |-> EmptyBag, signBallots |-> <<>>, decMsgs |-> <<>>,
     loop |-> LoopStart]

\* variant: in Cast the total is the number of valid signed ballots
ProgressCastTotalSigned(p, set, acc) ==
    [p EXCEPT !.Total = acc.validSignBallots, !.Count = acc.validSignBallots]

\* p.Phase == Cast
ProgressCast(p, set, acc) ==
    [p EXCEPT !.Total = SetLen(set), !.Count = acc.validSignBallots]

\* variant: in Tally the ballots that failed to decrypt stay in the total
ProgressTallyKeepsInvalid(p, acc) ==
    [p EXCEPT !.Total = acc.validSignBallots,
              !.Count = acc.validDecBallots,
              !.Tally = MethodTally(acc.decBallots)]

\* p.Phase == Tally
ProgressTally(p, acc) ==
    [p EXCEPT !.Total = acc.validSignBallots - acc.invalidDecBallots,
              !.Count = acc.validDecBallots,
              !.Tally = MethodTally(acc.decBallots)]

\* variant: at End the count is the number of valid signed ballots
ProgressEndCountsSigned(p, acc) ==
    [p EXCEPT !.Total = acc.validSignBallots,
              !.Count = acc.validSignBallots,
              !.Tally = MethodTally(acc.decBallots)]

\* the remaining phase, End
ProgressEnd(p, acc) ==
    [p EXCEPT !.Total = acc.validSignBallots,
              !.Count = acc.validDecBallots,
              !.Tally = MethodTally(acc.decBallots)]

\* variant: a bare return, which hands back the named result as the loop
\* left it
ProgressErrNamed(acc) == acc.err

\* return p, nil
ProgressErr(acc) == ErrNil

Progress(ph, msgs) ==
    IF ProgressPhaseOnly(ph) THEN [ZeroProgress EXCEPT !.Phase = ph]
    ELSE LET gcs == GetCredentialSet(ph, msgs) IN
         IF gcs.err # ErrNil
         THEN [ZeroProgress EXCEPT !.Phase = ph, !.err = gcs.err, !.reads = gcs.reads]
         ELSE LET signBallots == Bodies(msgs, "SignedBallot")
                  decMsgs == Bodies(msgs, "Decryption")
                  acc == ProgressLoop(signBallots, decMsgs, gcs.set, ph, 1, LoopStart)
                  p == [ZeroProgress EXCEPT !.Phase = ph, !.reads = gcs.reads + 1,
                                            !.err = ProgressErr(acc),
                                            !.set = gcs.set,
                                            !.signBallots = signBallots,
                                            !.decMsgs = decMsgs, !.loop = acc]
              IN  IF ph = Cast THEN ProgressCast(p, gcs.set, acc)
                  ELSE IF ph = Tally THEN ProgressTally(p, acc)
                  ELSE ProgressEnd(p, acc)

(* ------------------------------ outcomes ------------------------------ *)
\* what a step leaves in last: the operation, the phase it read, the length
\* of the log when it began,
\* the error it returned, and its accesses to the log and to the secrets
\* manager
Outcome(op, ph, err) ==
    [op |-> op, phase |-> ph, logLen |-> Len(messages),
     err |-> err, reads |-> 0, secReads |-> 0, secWrites |-> 0,
     set |-> EmptyBag, pkhs |-> {}, p |-> ZeroProgress]

\* the solutions a caller can hand to PostBallotDecryption or to the server:
\* those of the puzzles created so far, with their proof or with a wrong one
KnownSolutions ==
    {VdfCreate(i) : i \in 1..(nextVdf - 1)}
        \cup {[VdfCreate(i) EXCEPT !.Proof = <<>>] : i \in 1..(nextVdf - 1)}

\* a client with no call under way: op names the call and msg is what it
\* is about to post; ph is the phase the call read and set the credential
\* set it fetched; voted and posted record how the client's latest Vote
\* ended and the ballot its latest successful Vote posted
NoCall ==
    [op |-> "none", ph |-> Setup, set |-> EmptyBag, choice |-> 0,
     msg |-> [kind |-> "None", body |-> <<>>], voted |-> "never", posted |-> ZeroBallot]

(* ------------------------------- Init --------------------------------- *)
InitWith(P) ==
    /\ now = 0
    /\ params \in P
    /\ messages = <<>>
    /\ secrets = [c \in Clients |-> [ballot |-> ZeroBallot, solution |-> ZeroSolution]]
    /\ nextVdf = 1
    /\ serverPosts = 0
    /\ last = Outcome("Init", Setup, ErrNil)
    /\ list = NewEligibilityList
    /\ calls = [c \in Actors |-> NoCall]

\* generateElectionParams: CastStart, TallyStart, TallyEnd in this order
Init == InitWith({[CastStart |-> 1, TallyStart |-> 2, TallyEnd |-> 3]})

(* ------------------------------ the clock ----------------------------- *)
Tick ==
    /\ now < MaxTime
    /\ now' = now + 1
    /\ last' = Outcome("Tick", Phase(params, now + 1), ErrNil)
    /\ UNCHANGED <<params, messages, secrets, nextVdf, serverPosts>>

(* --------------------------- PostCredential --------------------------- *)
PostCredential(c, fail) ==
    LET ph == Phase(params, now) IN
    /\ IF ~PostCredentialAllowed(ph)
       THEN /\ last' = Outcome("PostCredential", ph, ErrWrongPhase)
            /\ UNCHANGED messages
       ELSE IF fail = "secrets"
       THEN /\ last' = [Outcome("PostCredential", ph, ErrSecrets) EXCEPT !.secReads = 1]
            /\ UNCHANGED messages
       ELSE LET pub == PublicOf(c)
                msg == CredentialMessageSign(c, pub)
            IN  IF fail = "post"
                THEN /\ last' = [Outcome("PostCredential", ph, ErrPost)
                                    EXCEPT !.secReads = 2]
                     /\ UNCHANGED messages
                ELSE /\ messages' = Append(messages, CredentialMsg(msg))
                     /\ last' = [Outcome("PostCredential", ph, ErrNil)
                                    EXCEPT !.secReads = 2]
    /\ UNCHANGED <<now, params, secrets, nextVdf, serverPosts>>

(* -------------------------- GetCredentialSet -------------------------- *)
GetCredentialSetCall ==
    LET ph == Phase(params, now)
        r == GetCredentialSet(ph, messages)
    IN  /\ last' = [Outcome("GetCredentialSet", ph, r.err)
                       EXCEPT !.reads = r.reads, !.set = r.set, !.pkhs = r.pkhs]
        /\ UNCHANGED <<now, params, messages, secrets, nextVdf, serverPosts>>

(* -------------------------------- Vote -------------------------------- *)
Vote(c, choice, fail) ==
    LET ph == Phase(params, now)
        r == GetCredentialSet(ph, messages)
        sol == VdfCreate(nextVdf)
        ballot == MethodVote(choice)
        encBallot == Encrypt(ballot, sol)
        signBallot == Sign(encBallot, c)
        out(err, rd, wr) == [Outcome("Vote", ph, err)
                                EXCEPT !.reads = r.reads, !.secReads = rd, !.secWrites = wr]
    IN
    /\ IF ~VoteAllowed(ph)
       THEN /\ last' = Outcome("Vote", ph, ErrWrongPhase)
            /\ UNCHANGED <<messages, secrets, nextVdf>>
       ELSE IF r.err # ErrNil
       THEN /\ last' = out(r.err, 0, 0)
            /\ UNCHANGED <<messages, secrets, nextVdf>>
       ELSE /\ nextVdf' = nextVdf + 1
            /\ IF fail = "secrets"
               THEN /\ secrets' = [secrets EXCEPT ![c].solution = sol]
                    /\ last' = out(ErrSecrets, 1, 1)
                    /\ UNCHANGED messages
               ELSE IF ~SignOk(r.set, c)
               THEN /\ secrets' = [secrets EXCEPT ![c].solution = sol]
                    /\ last' = out(ErrSign, 1, 1)
                    /\ UNCHANGED messages
               ELSE IF fail = "post"
               THEN /\ secrets' = [secrets EXCEPT ![c].solution = sol,
                                                  ![c].ballot = signBallot]
                    /\ last' = out(ErrPost, 1, 2)
                    /\ UNCHANGED messages
               ELSE /\ secrets' = [secrets EXCEPT ![c].solution = sol,
                                                  ![c].ballot = signBallot]
                    /\ messages' = Append(messages, SignedBallotMsg(signBallot))
                    /\ last' = out(ErrNil, 1, 2)
    /\ UNCHANGED <<now, params, serverPosts>>

(* ------------------------ ballot decryption --------------------------- *)
\* the outcome of PostBallotDecryption(sol), reported under the name op
PostDecryption(op, sol, fail, secReads) ==
    LET ph == Phase(params, now) IN
    IF ~PostBallotDecryptionAllowed(ph)
    THEN /\ last' = [Outcome(op, ph, ErrWrongPhase) EXCEPT !.secReads = secReads]
         /\ UNCHANGED messages
    ELSE LET msg == CreateDecryptionMessage(sol) IN
         IF fail = "post"
         THEN /\ last' = [Outcome(op, ph, ErrPost) EXCEPT !.secReads = secReads]
              /\ UNCHANGED messages
         ELSE /\ messages' = Append(messages, DecryptionMsg(msg))
              /\ last' = [Outcome(op, ph, ErrNil) EXCEPT !.secReads = secReads]

PostBallotDecryption(sol, fail) ==
    /\ PostDecryption("PostBallotDecryption", sol, fail, 0)
    /\ UNCHANGED <<now, params, secrets, nextVdf, serverPosts>>

RevealBallotDecryption(c, fail) ==
    /\ IF fail = "secrets"
       THEN /\ last' = [Outcome("RevealBallotDecryption", Phase(params, now), ErrSecrets)
                           EXCEPT !.secReads = 1]
            /\ UNCHANGED messages
       ELSE PostDecryption("RevealBallotDecryption", secrets[c].solution, fail, 1)
    /\ UNCHANGED <<now, params, secrets, nextVdf, serverPosts>>

(* ------------------------------ Progress ------------------------------ *)
\* variant: Progress clears the stored solution of a client whose ballot it
\* has decrypted
ProgressCallClearsRevealed ==
    LET ph == Phase(params, now)
        p == Progress(ph, messages)
        opened == {p.signBallots[p.loop.decrypted[k]] : k \in 1..Len(p.loop.decrypted)}
    IN  /\ last' = [Outcome("Progress", ph, p.err) EXCEPT !.reads = p.reads, !.p = p]
        /\ secrets' = [c \in Clients |->
                          IF secrets[c].ballot \in opened
                          THEN [secrets[c] EXCEPT !.solution = ZeroSolution]
                          ELSE secrets[c]]
        /\ UNCHANGED <<now, params, messages, nextVdf, serverPosts>>

ProgressCall ==
    LET ph == Phase(params, now)
        p == Progress(ph, messages)
    IN  /\ last' = [Outcome("Progress", ph, p.err) EXCEPT !.reads = p.reads, !.p = p]
        /\ UNCHANGED <<now, params, messages, secrets, nextVdf, serverPosts>>

(* -------------------- the server's POST /messages --------------------- *)
\* messages handed to the server directly: a decryption of a known solution
\* with its proof or with a wrong one; a credential message whose signature
\* is by another key; a credential message in which key 1 signs another
\* credential than its first; a ballot that client 1 signs itself over a
\* puzzle it has already used, encrypted properly or under a key that is not
\* the puzzle's output; a ballot of client 1 whose signature covers other
\* bytes
GoodSolutions == {sol \in KnownSolutions : VdfVerify(sol)}

ServerMessages ==
    {DecryptionMsg(CreateDecryptionMessage(sol)) : sol \in KnownSolutions}
        \cup {CredentialMsg([CredentialMessageSign(Outsider, PublicOf(Outsider))
                                EXCEPT !.PublicKey = PublicKeyOf(1)])}
        \cup {CredentialMsg(CredentialMessageSign(1, PublicOf(Outsider)))}
        \cup {SignedBallotMsg(Sign(Encrypt(MethodVote(ch), sol), 1)) :
                 ch \in Choices, sol \in GoodSolutions}
        \cup {SignedBallotMsg(Sign(Encrypt(MethodVote(0), [sol EXCEPT !.Output = <<>>]), 1)) :
                 sol \in GoodSolutions}
        \cup {SignedBallotMsg([Sign(Encrypt(MethodVote(0), sol), 1)
                                  EXCEPT !.Signature.over = ZeroBallot.EncryptedBallot]) :
                 sol \in GoodSolutions}

ServerPost(m) ==
    /\ serverPosts' = serverPosts + 1
    /\ messages' = Append(messages, m)
    /\ last' = Outcome("ServerPost", Phase(params, now), ErrNil)
    /\ UNCHANGED <<now, params, secrets, nextVdf>>

(* ---------------------------- specification --------------------------- *)
Fails == {"none", "secrets", "post"}

\* the API driven by one roster member and the outsider, with failing
\* collaborators, and the server's endpoint; a call is made while the log and
\* the puzzles are below their caps
LogOpen == Len(messages) < MaxLog

\* the election leaves the roster under test and the calls under way alone
Apart == UNCHANGED <<list, calls>>

Next ==
    \/ Tick /\ Apart
    \/ LogOpen /\ Apart /\ \E c \in Actors, fail \in Fails : PostCredential(c, fail)
    \/ GetCredentialSetCall /\ Apart
    \/ LogOpen /\ nextVdf <= MaxVdf /\ Apart /\
          \E c \in Actors, choice \in Choices, fail \in Fails : Vote(c, choice, fail)
    \/ LogOpen /\ Apart /\ \E sol \in GoodSolutions, fail \in {"none", "post"} :
          PostBallotDecryption(sol, fail)
    \/ LogOpen /\ Apart /\ \E c \in Actors, fail \in Fails : RevealBallotDecryption(c, fail)
    \/ ProgressCall /\ Apart
    \/ LogOpen /\ serverPosts < MaxServerPosts /\ Apart /\
          \E m \in ServerMessages : ServerPost(m)

Spec == Init /\ [][Next]_vars

\* the phase function over every triple of timestamps
AllParams ==
    [CastStart : 0..MaxTime, TallyStart : 0..MaxTime, TallyEnd : 0..MaxTime]

InitPhase == InitWith(AllParams)
NextPhase == Tick /\ Apart
SpecPhase == InitPhase /\ [][NextPhase]_vars

(* ------------------------- the election, run --------------------------- *)
\* TestElection's run of the API with working collaborators: every roster
\* member posts its credential once, votes once and reveals once, in any
\* order the phases allow, and Progress is called at any time
Posted(c) ==
    \E i \in 1..Len(messages) :
        messages[i] = CredentialMsg(CredentialMessageSign(c, PublicOf(c)))

Revealed(c) ==
    \E i \in 1..Len(messages) :
        messages[i] = DecryptionMsg(CreateDecryptionMessage(secrets[c].solution))

NextElection ==
    \/ Tick /\ Apart
    \/ Apart /\ \E c \in Roster : ~Posted(c) /\ PostCredential(c, "none")
    \/ Apart /\ \E c \in Roster, choice \in Choices :
          secrets[c].solution = ZeroSolution /\ Vote(c, choice, "none")
    \/ Apart /\ \E c \in Roster : ~Revealed(c) /\ RevealBallotDecryption(c, "none")
    \/ ProgressCall /\ Apart

SpecElection == Init /\ [][NextElection]_vars

(* ------------------- the API, a suspension at a time ------------------- *)
\* a call of the API is suspended where it waits: for the log, for the VDF
\* and for the post; the clock and the other clients run in between. A
\* client has one call under way at a time.
Idle(c) == calls[c].op = "none"

\* the call of c returns
Return(c, voted) == [calls[c] EXCEPT !.op = "none", !.voted = voted]

\* Election.PostCredential up to its post: the phase is read, the key and
\* the credential are loaded and the message is signed
PostCredentialBegin(c, fail) ==
    LET ph == Phase(params, now) IN
    /\ Idle(c)
    /\ IF ~PostCredentialAllowed(ph)
       THEN /\ last' = Outcome("PostCredential", ph, ErrWrongPhase)
            /\ UNCHANGED calls
       ELSE IF fail = "secrets"
       THEN /\ last' = [Outcome("PostCredential", ph, ErrSecrets) EXCEPT !.secReads = 1]
            /\ UNCHANGED calls
       ELSE /\ calls' = [calls EXCEPT ![c].op = "PostCredential", ![c].ph = ph,
                            ![c].msg = CredentialMsg(CredentialMessageSign(c, PublicOf(c)))]
            /\ last' = [Outcome("PostCredentialBegin", ph, ErrNil) EXCEPT !.secReads = 2]
    /\ UNCHANGED <<now, params, messages, secrets, nextVdf, serverPosts>>

\* Election.Vote up to the VDF: the phase is read and the credential set is
\* fetched from the log
VoteBegin(c, choice) ==
    LET ph == Phase(params, now)
        r == GetCredentialSet(ph, messages)
    IN
    /\ Idle(c)
    /\ IF ~VoteAllowed(ph)
       THEN /\ last' = Outcome("Vote", ph, ErrWrongPhase)
            /\ calls' = [calls EXCEPT ![c] = Return(c, "failed")]
       ELSE IF r.err # ErrNil
       THEN /\ last' = [Outcome("Vote", ph, r.err) EXCEPT !.reads = r.reads]
            /\ calls' = [calls EXCEPT ![c] = Return(c, "failed")]
       ELSE /\ calls' = [calls EXCEPT ![c].op = "VoteCreate", ![c].ph = ph,
                            ![c].set = r.set, ![c].choice = choice]
            /\ last' = [Outcome("VoteBegin", ph, ErrNil) EXCEPT !.reads = r.reads]
    /\ UNCHANGED <<now, params, messages, secrets, nextVdf, serverPosts>>

\* variant: a solution that is already stored is kept
VoteCreateKeepsSolution(c, fail) ==
    LET call == calls[c]
        sol == VdfCreate(nextVdf)
        kept == IF secrets[c].solution = ZeroSolution THEN sol ELSE secrets[c].solution
        signBallot == Sign(Encrypt(MethodVote(call.choice), sol), c)
        out(err, wr) == [Outcome("Vote", call.ph, err) EXCEPT !.secReads = 1, !.secWrites = wr]
    IN
    /\ call.op = "VoteCreate"
    /\ nextVdf' = nextVdf + 1
    /\ IF fail = "secrets"
       THEN /\ secrets' = [secrets EXCEPT ![c].solution = kept]
            /\ last' = out(ErrSecrets, 1)
            /\ calls' = [calls EXCEPT ![c] = Return(c, "failed")]
       ELSE IF ~SignOk(call.set, c)
       THEN /\ secrets' = [secrets EXCEPT ![c].solution = kept]
            /\ last' = out(ErrSign, 1)
            /\ calls' = [calls EXCEPT ![c] = Return(c, "failed")]
       ELSE /\ secrets' = [secrets EXCEPT ![c].solution = kept, ![c].ballot = signBallot]
            /\ last' = [out(ErrNil, 2) EXCEPT !.op = "VoteCreate"]
            /\ calls' = [calls EXCEPT ![c].op = "Vote",
                            ![c].msg = SignedBallotMsg(signBallot)]
    /\ UNCHANGED <<now, params, messages, serverPosts>>

\* Election.Vote from the VDF's answer to the post: the solution is stored,
\* the ballot is encrypted and signed, and the signed ballot is stored
VoteCreate(c, fail) ==
    LET call == calls[c]
        sol == VdfCreate(nextVdf)
        signBallot == Sign(Encrypt(MethodVote(call.choice), sol), c)
        out(err, wr) == [Outcome("Vote", call.ph, err) EXCEPT !.secReads = 1, !.secWrites = wr]
    IN
    /\ call.op = "VoteCreate"
    /\ nextVdf' = nextVdf + 1
    /\ IF fail = "secrets"
       THEN /\ secrets' = [secrets EXCEPT ![c].solution = sol]
            /\ last' = out(ErrSecrets, 1)
            /\ calls' = [calls EXCEPT ![c] = Return(c, "failed")]
       ELSE IF ~SignOk(call.set, c)
       THEN /\ secrets' = [secrets EXCEPT ![c].solution = sol]
            /\ last' = out(ErrSign, 1)
            /\ calls' = [calls EXCEPT ![c] = Return(c, "failed")]
       ELSE /\ secrets' = [secrets EXCEPT ![c].solution = sol, ![c].ballot = signBallot]
            /\ last' = [out(ErrNil, 2) EXCEPT !.op = "VoteCreate"]
            /\ calls' = [calls EXCEPT ![c].op = "Vote",
                            ![c].msg = SignedBallotMsg(signBallot)]
    /\ UNCHANGED <<now, params, messages, serverPosts>>

\* Election.RevealBallotDecryption up to the post of PostBallotDecryption:
\* the solution is loaded, the phase is read and the message is built
RevealBegin(c, fail) ==
    LET ph == Phase(params, now) IN
    /\ Idle(c)
    /\ IF fail = "secrets"
       THEN /\ last' = [Outcome("RevealBallotDecryption", ph, ErrSecrets)
                           EXCEPT !.secReads = 1]
            /\ UNCHANGED calls
       ELSE IF ~PostBallotDecryptionAllowed(ph)
       THEN /\ last' = [Outcome("RevealBallotDecryption", ph, ErrWrongPhase)
                           EXCEPT !.secReads = 1]
            /\ UNCHANGED calls
       ELSE /\ calls' = [calls EXCEPT ![c].op = "RevealBallotDecryption", ![c].ph = ph,
                            ![c].msg = DecryptionMsg(
                                          CreateDecryptionMessage(secrets[c].solution))]
            /\ last' = [Outcome("RevealBegin", ph, ErrNil) EXCEPT !.secReads = 1]
    /\ UNCHANGED <<now, params, messages, secrets, nextVdf, serverPosts>>

\* the operations that end with channel.Post
Posting == {"PostCredential", "Vote", "RevealBallotDecryption"}

\* variant: the error of the post is dropped
PostIgnoresError(c, fail) ==
    LET call == calls[c]
        voted == IF call.op # "Vote" THEN call.voted ELSE "ok"
    IN
    /\ call.op \in Posting
    /\ IF fail = "post"
       THEN /\ UNCHANGED messages
            /\ calls' = [calls EXCEPT ![c] = Return(c, voted)]
       ELSE /\ messages' = Append(messages, call.msg)
            /\ calls' = [calls EXCEPT ![c] =
                            [Return(c, voted) EXCEPT
                                !.posted = IF call.op = "Vote" THEN call.msg.body ELSE @]]
    /\ last' = Outcome(call.op, call.ph, ErrNil)
    /\ UNCHANGED <<now, params, secrets, nextVdf, serverPosts>>

\* return e.channel.Post(ctx, msg): the last statement of PostCredential, of
\* Vote and of PostBallotDecryption; the log appends the message or the
\* post fails, and the call returns the post's error
Post(c, fail) ==
    LET call == calls[c]
        err == IF fail = "post" THEN ErrPost ELSE ErrNil
        voted == IF call.op # "Vote" THEN call.voted
                 ELSE IF err = ErrNil THEN "ok" ELSE "failed"
    IN
    /\ call.op \in Posting
    /\ IF err # ErrNil
       THEN /\ UNCHANGED messages
            /\ calls' = [calls EXCEPT ![c] = Return(c, voted)]
       ELSE /\ messages' = Append(messages, call.msg)
            /\ calls' = [calls EXCEPT ![c] =
                            [Return(c, voted) EXCEPT
                                !.posted = IF call.op = "Vote" THEN call.msg.body ELSE @]]
    /\ last' = Outcome(call.op, call.ph, err)
    /\ UNCHANGED <<now, params, secrets, nextVdf, serverPosts>>

NextSteps ==
    \/ Tick /\ Apart
    \/ UNCHANGED list /\
          \E c \in Actors, fail \in {"none", "secrets"} : PostCredentialBegin(c, fail)
    \/ UNCHANGED list /\ \E c \in Actors, choice \in Choices : VoteBegin(c, choice)
    \/ nextVdf <= MaxVdf /\ UNCHANGED list /\
          \E c \in Actors, fail \in {"none", "secrets"} : VoteCreate(c, fail)
    \/ UNCHANGED list /\ \E c \in Actors, fail \in {"none", "secrets"} : RevealBegin(c, fail)
    \/ Len(messages) < MaxStepLog /\ UNCHANGED list /\
          \E c \in Actors, fail \in {"none", "post"} : Post(c, fail)

SpecSteps == Init /\ [][NextSteps]_vars

(* ------------------------- the roster, driven -------------------------- *)
\* a hash value whose bytes are all b
HashValue(b) == [i \in 1..HashSize |-> b]
PublicKeyHashes == {HashValue(b) : b \in 1..NumHashes}
IdCommitments == {HashValue(100 + b) : b \in 1..NumCommitments}

election == <<now, params, messages, secrets, nextVdf, serverPosts, calls>>

\* a panic ends the process
Running == last.op = "Init" \/ last.err # PanicNilMap

AddCall(pkh, idCom) ==
    LET a == Add(list, pkh, idCom) IN
    /\ Running
    /\ list' = a.list
    /\ last' = [op |-> "Add", pkh |-> pkh, idCom |-> idCom, ok |-> a.ok,
                err |-> IF a.panic THEN PanicNilMap ELSE ErrNil, before |-> list]
    /\ UNCHANGED election

LookupCall(pkh) ==
    /\ Running
    /\ last' = [op |-> "Lookup", pkh |-> pkh, contains |-> Contains(list, pkh),
                idCom |-> IdCommitment(list, pkh), err |-> ErrNil]
    /\ UNCHANGED <<election, list>>

\* the buffers handed to FromBytes: the roster's own encoding, the same with
\* another magic, with its last byte cut off, with one more pair (a second
\* pair for a key of the roster, or a new key), and with one more pair twice
ListBuffers ==
    LET own == ListBytes(list)
    IN  {own, WriteUint32(ellMagic + 1) \o Drop(own, 4), Take(own, Len(own) - 1)}
        \cup {own \o h \o c : h \in PublicKeyHashes, c \in IdCommitments}
        \cup {own \o h \o c \o h \o c : h \in PublicKeyHashes, c \in IdCommitments}

FromBytesCall(p) ==
    LET r == ListFromBytes(list, p) IN
    /\ Running
    /\ list' = r.list
    /\ last' = [op |-> "FromBytes", p |-> p, err |-> r.err, before |-> list]
    /\ UNCHANGED election

NextRoster ==
    \/ \E pkh \in PublicKeyHashes, idCom \in IdCommitments : AddCall(pkh, idCom)
    \/ \E pkh \in PublicKeyHashes : LookupCall(pkh)
    \/ \E p \in ListBuffers : FromBytesCall(p)

SpecRoster == Init /\ [][NextRoster]_vars

(* ------------------------- the codecs, driven -------------------------- *)
\* a string of n bytes b
Text(b, n) == [i \in 1..n |-> b]
LongText == 130

\* rosters of zero, one and two members
Rosters ==
    LET one == Add(NewEligibilityList, HashValue(1), HashValue(101)).list
    IN  {NewEligibilityList, one, Add(one, HashValue(2), HashValue(102)).list}

\* the params a server can hold
ParamsInputs ==
    [Version : {0, 1}, CastStart : {1}, TallyStart : {1, 2}, TallyEnd : {2, 300},
     MaxVdfDifficulty : {0, 70000}, VotingMethod : {<<>>, Text(80, 1)},
     Title : {Text(84, 2)}, Description : {<<>>, Text(68, LongText)},
     Choices : {<<>>, <<Text(65, 1)>>, <<Text(65, 1), <<>>>>},
     EligibilityList : Rosters]

\* the params of a server reach a client: the server sends Bytes, the
\* client decodes them with FromBytes
\* what the call leaves in last: the params, their bytes and the decoder's result r
ParamsResult(p, b, r) ==
    [op |-> "ParamsFromBytes", params |-> p, b |-> b, err |-> r.err,
     decoded |-> r.params]

ParamsFromBytesCall(p) ==
    LET b == ParamsBytes(p)
    IN  /\ last' = ParamsResult(p, b, ParamsFromBytes(b))
        /\ UNCHANGED <<election, list>>

\* the invitations handed out: with and without network, address and
\* servers, with a long address, and one with a network name of MaxVector
\* bytes
Invitations ==
    [Network : {<<>>, Text(78, 1), Text(79, 3)},
     Address : {<<>>, Text(7, 2), Text(7, LongText)},
     Servers : {<<>>, <<Text(83, 1)>>, <<<<>>>>, <<Text(83, 1), Text(84, 2)>>,
                <<Text(84, 2), Text(83, 1)>>, <<Text(83, 1), Text(83, 1)>>}]
        \cup {[Network |-> Text(78, MaxVector), Address |-> Text(7, 2),
                Servers |-> <<Text(83, 1)>>]}

\* an invitation is written as a string and the string is decoded; with
\* damage, the first digit of the string is changed on the way
DecodeInvitationCall(inv, damage) ==
    LET str == InvitationString(inv)
        got == IF damage THEN [str EXCEPT ![1] = (@ + 1) % 32] ELSE str
        r == DecodeInvitation(got)
    IN  /\ last' = [op |-> "DecodeInvitation", inv |-> inv, damage |-> damage,
                    err |-> r.err, decoded |-> r.inv]
        /\ UNCHANGED <<election, list>>

\* the codecs keep no state: each is applied once, to every input
Fresh == last.op = "Init"

NextInvitation ==
    Fresh /\ \E inv \in Invitations, damage \in BOOLEAN : DecodeInvitationCall(inv, damage)

SpecInvitation == Init /\ [][NextInvitation]_vars

\* the randomness a key is generated from, and the messages signed
Seeds == {0, 1, 2, 77}
SignedMessages == {<<>>, Text(72, 5)}

\* pubkey/pubkey.go: a key is generated, signs a message, and the signature
\* is verified under its public key
KeyCall(keyType, seed, msg) ==
    LET k == GenerateKey(keyType, seed)
        sig == KeySign(k, msg)
    IN  /\ last' = [op |-> "Key", keyType |-> keyType, pub |-> k.p,
                    type |-> k.p[1], msg |-> msg,
                    verify |-> KeyVerify(k.p, msg, sig.sig), err |-> k.err]
        /\ UNCHANGED <<election, list>>

\* TestGenerateKeyAndOperations on the package with String and Parse: a key
\* is generated, signs a message, the signature is verified, and the public
\* key is written as a string and parsed
TaggedKeyCall(keyType, seed, msg) ==
    LET k == TaggedGenerateKey(keyType, seed)
        sig == TaggedKeySign(k, msg)
        str == KeyString(k.p)
        parsed == KeyParse(str.str)
    IN  /\ last' = [op |-> "TaggedKey", keyType |-> keyType, pub |-> k.p,
                    type |-> KeyType(k.p), msg |-> msg,
                    verify |-> TaggedKeyVerify(k.p, msg, sig.sig),
                    str |-> str.str, parseErr |-> parsed.err, parsed |-> parsed.key,
                    err |-> k.err]
        /\ UNCHANGED <<election, list>>

NextKeys ==
    \/ Fresh /\ \E keyType \in {KeyTypeEd25519, KeyTypeTezos}, seed \in Seeds,
                   msg \in SignedMessages : KeyCall(keyType, seed, msg)
    \/ Fresh /\ \E keyType \in {TaggedKeyTypeEd25519, TaggedKeyTypeTezos}, seed \in Seeds,
                   msg \in SignedMessages : TaggedKeyCall(keyType, seed, msg)

\* the messages of a log
WireCredentials ==
    {[kind |-> "Credential", body |-> b] :
        b \in [PublicKey : {Text(1, 2)}, Credential : {Text(2, 1), Text(2, LongText)},
               Signature : {Text(3, 1)}]}
WireBallots ==
    {[kind |-> "SignedBallot", body |-> b] :
        b \in [EncryptedBallot : {Text(4, 3)}, SerialNo : {Text(5, 1), Text(6, 1)},
               Signature : {Text(7, 1)}]}
WireDecryptions ==
    {[kind |-> "Decryption", body |-> b] :
        b \in [InputHash : {HashValue(8)}, Output : {Text(9, 1)},
               Proof : {<<>>, Text(10, 1)}]}
WireMessages == WireCredentials \cup WireBallots \cup WireDecryptions

\* the params a Message can carry
WireParams ==
    {[kind |-> "ElectionParams", body |-> b] :
        b \in {q \in ParamsInputs :
                  /\ q.TallyStart = 2 /\ q.TallyEnd = 300 /\ q.MaxVdfDifficulty = 0
                  /\ q.Description = <<>> /\ q.Choices # <<>>}}

\* the logs a server can hold
MaxMessages == 2
Logs == UNION {[1..n -> WireMessages] : n \in 0..MaxMessages}

\* BroadcastClient.Post and the server's POST /messages: the bytes of the
\* Message are sent and the server parses them
\* what a Post leaves in last: the message, its bytes and the server's parse r
PostResult(m, p, r) == [op |-> "Post", m |-> m, p |-> p, err |-> r.err, got |-> r.m]

PostCall(m) ==
    LET p == MessageBytes(m).val
    IN  /\ last' = PostResult(m, p, MessageFromBytes(p))
        /\ UNCHANGED <<election, list>>

\* the bodies a client can send by hand: nothing, a phase byte alone, the
\* bytes of a message under another phase byte, and those bytes cut short
RawBodies ==
    {<<>>}
        \cup {<<t>> : t \in 0..5}
        \cup {<<t>> \o Drop(MessageBytes(m).val, 1) : t \in {1, 2, 3, 4, 5, 255}, m \in WireMessages}
        \cup {Take(MessageBytes(m).val, Len(MessageBytes(m).val) - 1) : m \in WireMessages}

\* POST /messages with a body built by hand
\* what a hand-built body leaves in last: the body and the server's parse r
PostRawResult(p, r) == [op |-> "PostRaw", p |-> p, err |-> r.err, got |-> r.m]

PostRawCall(p) ==
    /\ last' = PostRawResult(p, MessageFromBytes(p))
    /\ UNCHANGED <<election, list>>

\* GET /messages: the server writes its log and BroadcastClient.Get reads
\* the answer
\* what a Get leaves in last: the log, the answer's body and the client's result r
GetResult(log, body, r) ==
    [op |-> "Get", log |-> log, body |-> body, err |-> r.err, msgs |-> r.msgs]

GetCall(log) ==
    LET body == ServerGet(log, 1)
    IN  /\ last' = GetResult(log, body, ClientGet(body, <<>>))
        /\ UNCHANGED <<election, list>>

\* the entries of an answer as BroadcastClient.Get reads them: a kind byte
\* and the vector of a payload
MaxEntries == 3
Payloads ==
    {CredentialBytes([PublicKey |-> Text(1, 2), Credential |-> Text(2, 1),
                      Signature |-> Text(3, 1)]),
     DecryptionBytes([InputHash |-> HashValue(8), Output |-> Text(9, 1),
                      Proof |-> Text(10, 1)]),
     <<>>}
Entries == [kind : 0..4, payload : Payloads]
Answers == UNION {[1..n -> Entries] : n \in 0..MaxEntries}

RECURSIVE AnswerBytes(_, _)
AnswerBytes(entries, i) ==
    IF i > Len(entries) THEN <<>>
    ELSE <<entries[i].kind>> \o WriteVector(entries[i].payload)
            \o AnswerBytes(entries, i + 1)

\* BroadcastClient.Get on an answer made of such entries
\* what a Get of such an answer leaves in last: the entries and the result r
ClientGetResult(entries, r) ==
    [op |-> "ClientGet", entries |-> entries, err |-> r.err, msgs |-> r.msgs]

ClientGetCall(entries) ==
    /\ last' = ClientGetResult(entries, ClientGet(AnswerBytes(entries, 1), <<>>))
    /\ UNCHANGED <<election, list>>

NextCodec ==
    \/ Fresh /\ \E p \in ParamsInputs : ParamsFromBytesCall(p)
    \/ Fresh /\ \E m \in WireMessages \cup WireParams : PostCall(m)
    \/ Fresh /\ \E p \in RawBodies : PostRawCall(p)
    \/ Fresh /\ \E log \in Logs : GetCall(log)
    \/ Fresh /\ \E entries \in Answers : ClientGetCall(entries)
    \/ NextKeys

SpecCodec == Init /\ [][NextCodec]_vars

(* ------------------------- the channel alone -------------------------- *)
\* MockBroadcastChannel and the server's POST /messages, driven with no
\* election in between; serverPosts counts the posts that were acknowledged

\* variant: Post puts the message at the head of the log
MockBroadcastChannelPostAtHead(m) ==
    /\ messages' = <<m>> \o messages
    /\ serverPosts' = serverPosts + 1
    /\ last' = [op |-> "MockPost", m |-> m, err |-> ErrNil]
    /\ UNCHANGED <<now, params, secrets, nextVdf, list, calls>>

\* MockBroadcastChannel.Post
MockBroadcastChannelPost(m) ==
    /\ messages' = Append(messages, m)
    /\ serverPosts' = serverPosts + 1
    /\ last' = [op |-> "MockPost", m |-> m, err |-> ErrNil]
    /\ UNCHANGED <<now, params, secrets, nextVdf, list, calls>>

\* MockBroadcastChannel.Get
MockBroadcastChannelGet ==
    /\ last' = [op |-> "MockGet", msgs |-> messages, err |-> ErrNil]
    /\ UNCHANGED <<election, list>>

\* the answer of POST /messages to the body p, r being the server's parse of
\* it: 403 from a server that does not post, 400 for a body that does not
\* parse, 200 once the channel has taken the message; a handler that panics
\* answers nothing (status 0)
ServerPostStatus(post, r) ==
    IF ~post THEN 403
    ELSE IF r.err = PanicNilMap THEN 0
    ELSE IF r.err # ErrNil THEN 400
    ELSE 200

ServerPostAnswer(post, p, r) ==
    [op |-> "ServerPost", post |-> post, p |-> p, status |-> ServerPostStatus(post, r),
     got |-> r.m]

\* the bodies sent to the server: the bytes of messages and of params, and
\* bodies built by hand
ChannelBodies ==
    {MessageBytes(m).val : m \in WireMessages \cup WireParams} \cup RawBodies

\* POST /messages of a server made with or without posting
ServerPostCall(post, p) ==
    /\ last' = ServerPostAnswer(post, p, MessageFromBytes(p))
    /\ IF last'.status = 200
       THEN /\ messages' = Append(messages, last'.got)
            /\ serverPosts' = serverPosts + 1
       ELSE UNCHANGED <<messages, serverPosts>>
    /\ UNCHANGED <<now, params, secrets, nextVdf, list, calls>>

ChannelOpen == Len(messages) < MaxChannelLog

NextChannel ==
    \/ ChannelOpen /\ \E m \in WireMessages : MockBroadcastChannelPost(m)
    \/ ChannelOpen /\ \E post \in BOOLEAN, p \in ChannelBodies : ServerPostCall(post, p)
    \/ MockBroadcastChannelGet

SpecChannel == Init /\ [][NextChannel]_vars

(* --------------------- NewElectionFromInvitation ---------------------- *)
ErrUnknownNetwork == "pebble: unknown network"
ErrNoServers == "pebble: no servers in invitation"
ErrInvalidAddress == "pebble: invalid address"
ErrTransport == "transport error"
ErrAnonCredNil == "pebble: anoncred.AnonCred1Instance is nil"
ErrUnknownMethod == "unknown voting method"
\* the run-time panic of a read through a nil pointer
PanicNilPointer == "panic: invalid memory address or nil pointer dereference"

\* NewBroadcastClient: the client, or no client and the error; made says
\* whether the address and the server are accepted
NewBroadcastClient(made) ==
    IF made THEN [bc |-> "client", err |-> ErrNil]
    ELSE [bc |-> "nil", err |-> ErrInvalidAddress]

\* BroadcastClient.Params: the client's fields are read first; a failed
\* request or a failed read returns nil and the transport's error, params
\* that do not parse return nil and the decoder's error
BroadcastClientParams(bc, fetch) ==
    IF bc = "nil" THEN [panic |-> TRUE, params |-> "nil", err |-> ErrNil]
    ELSE IF fetch = "transport" THEN [panic |-> FALSE, params |-> "nil", err |-> ErrTransport]
    ELSE IF fetch = "parse" THEN [panic |-> FALSE, params |-> "nil", err |-> errUnknownVersion]
    ELSE [panic |-> FALSE, params |-> "params", err |-> ErrNil]

NoElection(err) == [election |-> FALSE, err |-> err]

\* NewElection: the instance is checked, the params are fetched and the
\* voting method is looked up
NewElection(bc, instance, fetch, method) ==
    IF ~instance THEN NoElection(ErrAnonCredNil)
    ELSE LET r == BroadcastClientParams(bc, fetch) IN
         IF r.err # ErrNil THEN NoElection(r.err)
         ELSE IF ~method THEN NoElection(ErrUnknownMethod)
         ELSE [election |-> TRUE, err |-> ErrNil]

\* NewElectionFromInvitation: the error of NewBroadcastClient is overwritten
\* by that of Params, and the fields of the params are printed before the
\* error of Params is looked at; a panic creates no Election and returns
\* nothing
NewElectionFromInvitation(inv, made, fetch, instance, fetch2, method) ==
    IF inv.Network = "mock"
    THEN IF Len(inv.Servers) = 0 THEN NoElection(ErrNoServers)
         ELSE LET c == NewBroadcastClient(made)
                  r == BroadcastClientParams(c.bc, fetch)
              IN  IF r.panic \/ r.params = "nil" THEN NoElection(PanicNilPointer)
                  ELSE IF r.err # ErrNil THEN NoElection(r.err)
                  ELSE NewElection(c.bc, instance, fetch2, method)
    ELSE NoElection(ErrUnknownNetwork)

(* ---------------------- the constructor, driven ------------------------ *)
Networks == {"mock", "tezos", ""}
ServerLists == {<<>>, <<"a">>, <<"a", "b">>}
Fetches == {"ok", "transport", "parse"}

NewElectionResult(inv, made, fetch, instance, fetch2, method, r) ==
    [op |-> "NewElectionFromInvitation", inv |-> inv, made |-> made,
     fetch |-> fetch, instance |-> instance, fetch2 |-> fetch2,
     method |-> method, err |-> r.err, election |-> r.election]

NewElectionFromInvitationCall(inv, made, fetch, instance, fetch2, method) ==
    /\ Fresh
    /\ last' = NewElectionResult(inv, made, fetch, instance, fetch2, method,
                  NewElectionFromInvitation(inv, made, fetch, instance, fetch2, method))
    /\ UNCHANGED <<election, list>>

NextConstructor ==
    \E n \in Networks, srv \in ServerLists, made \in BOOLEAN, fetch \in Fetches,
       instance \in BOOLEAN, fetch2 \in Fetches, method \in BOOLEAN :
        NewElectionFromInvitationCall([Network |-> n, Address |-> <<1>>, Servers |-> srv],
                                      made, fetch, instance, fetch2, method)

SpecConstructor == Init /\ [][NextConstructor]_vars

(* ====================================================================== *)
(*                              properties                                *)
(* ====================================================================== *)
Range(f) == {f[i] : i \in DOMAIN f}

\* the last step was a call of Progress that went through the ballots
ProgressRan == last.op = "Progress" /\ last.err = ErrNil /\ last.phase >= Cast

\* the signed ballots of the last Progress that verify against its set
Verifying(p) ==
    {i \in 1..Len(p.signBallots) : SignedBallotVerify(p.signBallots[i], p.set)}

\* the log holds a verified decryption that decrypts ballot i
HasDecryption(p, i) ==
    decryptBallot(p.signBallots[i].EncryptedBallot, p.decMsgs).err = ErrNil

\* the verifying ballots that are the first of their serial_no in log order
FirstOfSerial(p) ==
    {i \in Verifying(p) :
        \A j \in Verifying(p) :
            p.signBallots[j].SerialNo = p.signBallots[i].SerialNo => i <= j}

\* C1: in phase Cast, Tally or End, the signed ballots that verify against
\* the credential set count once per serial_no in valid_sign: of the
\* verifying ballots that share a serial_no exactly one is counted
C1_DoubleVoteSuppression ==
    ProgressRan =>
        /\ last.p.loop.validSignBallots =
              Cardinality({last.p.signBallots[i].SerialNo : i \in Verifying(last.p)})
        /\ \A i, j \in Range(last.p.loop.counted) :
              last.p.signBallots[i].SerialNo = last.p.signBallots[j].SerialNo => i = j

\* C2: in phase Tally or End, when two verifying ballots with verified
\* decryptions share a serial_no, the later one is counted neither in
\* valid_sign nor in valid_dec, and the tally is that of the first ballots
\* of each serial_no
C2_FirstBallotWins ==
    (ProgressRan /\ last.phase >= Tally) =>
        \A i, j \in Verifying(last.p) :
            ( /\ i < j
              /\ last.p.signBallots[i].SerialNo = last.p.signBallots[j].SerialNo
              /\ HasDecryption(last.p, i)
              /\ HasDecryption(last.p, j) )
            => /\ j \notin Range(last.p.loop.counted)
               /\ j \notin Range(last.p.loop.decrypted)
               /\ \A ch \in Choices :
                     last.p.Tally[ch] =
                        Cardinality({k \in FirstOfSerial(last.p) :
                            /\ HasDecryption(last.p, k)
                            /\ last.p.signBallots[k].EncryptedBallot.Ciphertext.plain = ch})

\* C3: the credential set holds no credential of a key whose hash is not in
\* the eligibility list, so it is never larger than the roster
C3_EligibilityFiltering ==
    (last.op = "GetCredentialSet" /\ last.err = ErrNil) =>
        /\ last.pkhs \subseteq EligibilityList
        /\ SetLen(last.set) <= Cardinality(EligibilityList)

\* C4: Progress in phase Cast decrypts nothing, whatever decryption messages
\* the log holds: valid_dec stays 0, decryptBallot is not invoked and no
\* tally is returned
C4_TimedRelease ==
    (last.op = "Progress" /\ last.phase = Cast) =>
        /\ last.p.loop.validDecBallots = 0
        /\ last.p.loop.invalidDecBallots = 0
        /\ last.p.loop.decryptCalls = 0
        /\ last.p.loop.decBallots = <<>>
        /\ DOMAIN last.p.Tally = {}
        /\ last.p.Count = last.p.loop.validSignBallots

\* Progress ran in Cast over a log that already holds a verified decryption
\* of a ballot it counted
C4_Witness ==
    /\ last.op = "Progress"
    /\ last.phase = Cast
    /\ \E i \in Range(last.p.loop.counted) : HasDecryption(last.p, i)

\* the timestamps are in the order the parameters require
ParamsValid ==
    params.CastStart < params.TallyStart /\ params.TallyStart < params.TallyEnd

\* C5: the phase is CredGen before cast_start, Cast from cast_start up to
\* tally_start, Tally from tally_start up to tally_end, End from tally_end
\* on, and never Setup
C5_PhaseFunction ==
    /\ Phase(params, now) # Setup
    /\ ParamsValid =>
          /\ (now < params.CastStart) => Phase(params, now) = CredGen
          /\ (params.CastStart <= now /\ now < params.TallyStart) => Phase(params, now) = Cast
          /\ (params.TallyStart <= now /\ now < params.TallyEnd) => Phase(params, now) = Tally
          /\ (params.TallyEnd <= now) => Phase(params, now) = End

\* the clock has reached tally_start exactly, and the phase read is Tally
C5_Witness ==
    /\ ParamsValid
    /\ last.op = "Tick"
    /\ now = params.TallyStart
    /\ last.phase = Tally

\* C6: with ordered timestamps the phase is monotone in the clock, and a
\* step of the clock never takes the phase backwards
C6_PhaseMonotone ==
    [][ParamsValid =>
          /\ Phase(params, now) <= Phase(params', now')
          /\ \A t1, t2 \in 0..MaxTime :
                t1 <= t2 => Phase(params, t1) <= Phase(params, t2)]_vars

\* the clock has run from CredGen to End
C6_Witness ==
    /\ ParamsValid
    /\ params.CastStart > 0
    /\ last.op = "Tick"
    /\ last.phase = End

\* C7: PostCredential outside CredGen returns ErrWrongPhase, appends nothing
\* and does not touch the secrets manager; in CredGen, when it succeeds, it
\* appends exactly one credential message
C7_PostCredentialPhase ==
    [][last'.op = "PostCredential" =>
          IF Phase(params, now) # CredGen
          THEN /\ last'.err = ErrWrongPhase
               /\ messages' = messages
               /\ secrets' = secrets
               /\ last'.secReads = 0
               /\ last'.secWrites = 0
          ELSE last'.err = ErrNil =>
                  /\ Len(messages') = Len(messages) + 1
                  /\ SubSeq(messages', 1, Len(messages)) = messages
                  /\ messages'[Len(messages')].kind = "Credential"]_vars

\* PostCredential was refused in Cast over a log that holds messages
C7_Witness ==
    /\ last.op = "PostCredential"
    /\ last.err = ErrWrongPhase
    /\ last.phase = Cast
    /\ Len(messages) > 0

\* C8: Vote outside Cast returns ErrWrongPhase before any other step: it
\* reads no log, creates no puzzle, persists nothing and appends nothing
C8_VoteWrongPhase ==
    [][(last'.op = "Vote" /\ Phase(params, now) # Cast) =>
          /\ last'.err = ErrWrongPhase
          /\ messages' = messages
          /\ secrets' = secrets
          /\ nextVdf' = nextVdf
          /\ last'.reads = 0
          /\ last'.secReads = 0
          /\ last'.secWrites = 0]_vars

\* Vote was refused in Tally, after an earlier Vote had created a puzzle
C8_Witness ==
    /\ last.op = "Vote"
    /\ last.err = ErrWrongPhase
    /\ last.phase = Tally
    /\ nextVdf > 1

\* C9, as claimed: PostBallotDecryption and RevealBallotDecryption outside
\* Tally return ErrWrongPhase and append nothing
C9_Claimed ==
    (last.op \in {"PostBallotDecryption", "RevealBallotDecryption"} /\ last.phase # Tally) =>
        /\ last.err = ErrWrongPhase
        /\ Len(messages) = last.logLen

\* C9, amended: outside Tally both calls append nothing; PostBallotDecryption
\* returns ErrWrongPhase, and RevealBallotDecryption returns ErrWrongPhase
\* unless loading the solution failed, which it reports instead; a step of
\* either call that appends a decryption message is taken in Tally
C9_DecryptionOnlyInTally ==
    [][last'.op \in {"PostBallotDecryption", "RevealBallotDecryption"} =>
          /\ Phase(params, now) # Tally =>
                /\ messages' = messages
                /\ last'.err \in {ErrWrongPhase, ErrSecrets}
                /\ last'.op = "PostBallotDecryption" => last'.err = ErrWrongPhase
                /\ last'.err = ErrSecrets => last'.secReads = 1
          /\ messages' # messages =>
                /\ Phase(params, now) = Tally
                /\ messages' = Append(messages, messages'[Len(messages')])
                /\ messages'[Len(messages')].kind = "Decryption"]_vars

\* both calls were refused outside Tally, the reveal with a stored solution
C9_Witness ==
    /\ last.op = "RevealBallotDecryption"
    /\ last.err = ErrWrongPhase
    /\ last.phase = End
    /\ \E c \in Clients : secrets[c].solution # ZeroSolution

\* the credential messages of the log that GetCredentialSet accepts
AcceptedKeys ==
    {Hash(messages[i].body.PublicKey) :
        i \in {k \in 1..Len(messages) :
                  /\ messages[k].kind = "Credential"
                  /\ CredentialMessageVerify(messages[k].body)
                  /\ ReadPublicCredentialOk(messages[k].body.Credential)}}

\* C10: GetCredentialSet in CredGen (or Setup) returns ErrWrongPhase without
\* reading the log; in Cast, Tally and End it reads the log once and its set
\* covers the accepted credential messages of the whole log
C10_GetCredentialSetPhase ==
    last.op = "GetCredentialSet" =>
        IF last.phase <= CredGen
        THEN /\ last.err = ErrWrongPhase
             /\ last.reads = 0
             /\ last.pkhs = {}
             /\ SetLen(last.set) = 0
        ELSE /\ last.err = ErrNil
             /\ last.reads = 1
             /\ last.pkhs = AcceptedKeys
             /\ SetLen(last.set) = Cardinality(AcceptedKeys)

\* GetCredentialSet was refused in CredGen over a log that holds credentials
C10_Witness ==
    /\ last.op = "GetCredentialSet"
    /\ last.phase = CredGen
    /\ last.err = ErrWrongPhase
    /\ AcceptedKeys # {}

\* the log with its messages rearranged by the permutation f
Permuted(f) == [i \in 1..Len(messages) |-> messages[f[i]]]

\* C11: Progress gives the same tally, and the same count and total, over
\* every permutation of the log it ran over
C11_PermutationInvariant ==
    ProgressRan =>
        \A f \in Permutations(1..Len(messages)) :
            LET q == Progress(last.phase, Permuted(f))
            IN  /\ q.Tally = last.p.Tally
                /\ q.Count = last.p.Count
                /\ q.Total = last.p.Total

\* the log without its last message
Front == SubSeq(messages, 1, Len(messages) - 1)

\* C12: when the last message of the log is a message the log already held,
\* Progress returns the same phase, count, total and tally as over the log
\* without it
C12_PostIdempotent ==
    ( /\ ProgressRan
      /\ Len(messages) >= 2
      /\ messages[Len(messages)] \in Range(Front) )
    => LET q == Progress(last.phase, Front)
       IN  /\ q.Phase = last.p.Phase
           /\ q.Count = last.p.Count
           /\ q.Total = last.p.Total
           /\ q.Tally = last.p.Tally

\* the log of the happy path: the credential of every roster member, one
\* ballot that a roster member cast with Vote for choice 1, and the
\* decryption message of that member's stored solution
HappyPath ==
    LET creds == Bodies(messages, "Credential")
        ballots == Bodies(messages, "SignedBallot")
        decs == Bodies(messages, "Decryption")
    IN  /\ Len(creds) = NumEligible
        /\ Range(creds) = {CredentialMessageSign(c, PublicOf(c)) : c \in Roster}
        /\ Len(ballots) = 1
        /\ Len(decs) = 1
        /\ \E c \in Roster :
              /\ ballots[1] = secrets[c].ballot
              /\ ballots[1] = Sign(Encrypt(MethodVote(1), secrets[c].solution), c)
              /\ decs[1] = CreateDecryptionMessage(secrets[c].solution)

SolutionOf(p, i, k) ==
    [Input |-> p.signBallots[i].EncryptedBallot.VdfInput,
     Output |-> p.decMsgs[k].Output, Proof |-> p.decMsgs[k].Proof]

MatchingDecs(p, i) ==
    {k \in 1..Len(p.decMsgs) :
        p.decMsgs[k].InputHash = Hash(p.signBallots[i].EncryptedBallot.VdfInput)}

VerifiedDecs(p, i) == {k \in MatchingDecs(p, i) : VdfVerify(SolutionOf(p, i, k))}

FirstVerified(p, i) == CHOOSE k \in VerifiedDecs(p, i) : \A j \in VerifiedDecs(p, i) : k <= j

\* ballot i opens under the first verified solution for it
Opens(p, i) ==
    /\ VerifiedDecs(p, i) # {}
    /\ DecryptOk(p.signBallots[i].EncryptedBallot, SolutionOf(p, i, FirstVerified(p, i)))

\* ballot i has a verified solution under which it does not open
FailsToOpen(p, i) ==
    /\ VerifiedDecs(p, i) # {}
    /\ ~DecryptOk(p.signBallots[i].EncryptedBallot, SolutionOf(p, i, FirstVerified(p, i)))

\* the tally of the ballots in the index set I
TallyOf(p, I) ==
    [ch \in Choices |->
        Cardinality({i \in I : p.signBallots[i].EncryptedBallot.Ciphertext.plain = ch})]

\* C14: Progress at End reports total = the number of valid signed ballots
\* and count = the number of those with a verified decryption, and the
\* tally is over exactly the decrypted ones: a ballot that was cast and
\* never revealed is in total and not in count
C14_EndReport ==
    (ProgressRan /\ last.phase = End) =>
        LET V == Verifying(last.p)
            D == {i \in V : Opens(last.p, i)}
        IN  /\ last.p.loop.validSignBallots = Cardinality(V)
            /\ last.p.loop.validDecBallots = Cardinality(D)
            /\ last.p.Total = Cardinality(V)
            /\ last.p.Count = Cardinality(D)
            /\ last.p.Tally = TallyOf(last.p, D)

\* three roster members cast a ballot and two of them revealed
C14_Witness ==
    /\ ProgressRan
    /\ last.phase = End
    /\ Cardinality({last.p.signBallots[i].SerialNo : i \in Verifying(last.p)}) = 3
    /\ last.p.Total = 3
    /\ last.p.Count = 2

\* C15: Progress in Tally reports total = valid_sign - invalid_dec and
\* count = valid_dec; invalid_dec counts exactly the valid signed ballots
\* that have a verified solution and fail to open under it, and a ballot
\* without a verified solution is in neither valid_dec nor invalid_dec
C15_TallyReport ==
    (ProgressRan /\ last.phase = Tally) =>
        LET V == Verifying(last.p)
            D == {i \in V : Opens(last.p, i)}
            B == {i \in V : FailsToOpen(last.p, i)}
        IN  /\ Range(last.p.loop.invalid) = B
            /\ last.p.loop.invalidDecBallots = Cardinality(B)
            /\ Range(last.p.loop.decrypted) = D
            /\ last.p.loop.validDecBallots = Cardinality(D)
            /\ last.p.Total = last.p.loop.validSignBallots - last.p.loop.invalidDecBallots
            /\ last.p.Count = Cardinality(D)
            /\ \A i \in V : VerifiedDecs(last.p, i) = {} =>
                  /\ i \notin Range(last.p.loop.decrypted)
                  /\ i \notin Range(last.p.loop.invalid)

\* Progress ran in Tally over a ballot that fails to open and a ballot
\* without a verified solution
C15_Witness ==
    /\ ProgressRan
    /\ last.phase = Tally
    /\ last.p.loop.invalidDecBallots >= 1
    /\ \E i \in Verifying(last.p) : VerifiedDecs(last.p, i) = {}

\* C16: Progress in Cast reports total = the size of the credential set and
\* count = the number of valid signed ballots, with no tally
C16_CastReport ==
    (ProgressRan /\ last.phase = Cast) =>
        /\ last.p.Total = SetLen(last.p.set)
        /\ last.p.Total = Cardinality(AcceptedKeys)
        /\ last.p.Count = last.p.loop.validSignBallots
        /\ last.p.Count = Cardinality(Verifying(last.p))
        /\ last.p.Tally = NoTally

\* Progress ran in Cast with the credentials of the whole roster and one ballot
C16_Witness ==
    /\ ProgressRan
    /\ last.phase = Cast
    /\ last.p.Total = NumEligible
    /\ last.p.Count = 1

\* C17: a matching decryption message whose proof fails is skipped: a valid
\* ballot with no verified solution is counted in valid_sign and is in
\* neither valid_dec nor invalid_dec nor the tally, and a ballot that opens
\* under a later verified solution is decrypted whatever bad-proof messages
\* precede it
C17_BadProofSkipped ==
    (ProgressRan /\ last.phase >= Tally) =>
        /\ \A i \in Verifying(last.p) :
              /\ i \in Range(last.p.loop.counted)
              /\ VerifiedDecs(last.p, i) = {} =>
                    /\ i \notin Range(last.p.loop.decrypted)
                    /\ i \notin Range(last.p.loop.invalid)
              /\ Opens(last.p, i) => i \in Range(last.p.loop.decrypted)
        /\ last.p.Tally = TallyOf(last.p, Range(last.p.loop.decrypted))
        /\ last.p.Count = Len(last.p.loop.decrypted)

\* a ballot was decrypted although a matching message with a bad proof comes
\* before the good one
C17_Witness ==
    /\ ProgressRan
    /\ last.phase >= Tally
    /\ \E i \in Range(last.p.loop.decrypted) :
          \E k \in MatchingDecs(last.p, i) \ VerifiedDecs(last.p, i) :
              k < FirstVerified(last.p, i)

\* C18: Progress in Setup or CredGen returns the phase only: count 0, total
\* 0, no tally, no error, and it reads no log and builds no credential set
C18_ProgressPhaseOnly ==
    (last.op = "Progress" /\ last.phase <= CredGen) =>
        /\ last.err = ErrNil
        /\ last.p.Phase = last.phase
        /\ last.p.Count = 0
        /\ last.p.Total = 0
        /\ last.p.Tally = NoTally
        /\ last.reads = 0
        /\ last.p.set = EmptyBag
        /\ last.p.loop = LoopStart

\* Progress ran in CredGen over a log that holds accepted credentials
C18_Witness ==
    /\ last.op = "Progress"
    /\ last.phase = CredGen
    /\ AcceptedKeys # {}

\* C19: Progress returns a nil error whatever the log holds, and never
\* ErrDecryptionNotFound
C19_ErrorsSwallowed ==
    last.op = "Progress" =>
        /\ last.err = ErrNil
        /\ last.p.err = ErrNil
        /\ last.err # ErrDecryptionNotFound

\* Progress ran over a ballot with a bad signature and a valid ballot whose
\* decryption was not found
C19_Witness ==
    /\ ProgressRan
    /\ last.phase >= Tally
    /\ last.p.loop.err = ErrVerify
    /\ \E i \in Verifying(last.p) : VerifiedDecs(last.p, i) = {}

\* C20: a Vote that returns an error leaves the stored VDF solution and the
\* stored signed ballot as they were
C20_VoteWritesOnlyOnSuccess ==
    [][(last'.op = "Vote" /\ last'.err # ErrNil) => secrets' = secrets]_vars

\* the accepted credential messages of the log, by index
AcceptedCredentials ==
    {k \in 1..Len(messages) :
        /\ messages[k].kind = "Credential"
        /\ CredentialMessageVerify(messages[k].body)
        /\ ReadPublicCredentialOk(messages[k].body.Credential)}

\* C21: the credential set has exactly one entry per distinct public-key
\* hash among the accepted credential messages, however many messages a key
\* has posted
C21_OneEntryPerKey ==
    (last.op = "GetCredentialSet" /\ last.err = ErrNil) =>
        LET keys == {Hash(messages[k].body.PublicKey) : k \in AcceptedCredentials}
        IN  /\ SetLen(last.set) = Cardinality(keys)
            /\ \A pkh \in keys : pkh \in last.pkhs
            /\ Cardinality(last.pkhs) = Cardinality(keys)

\* the set was built from a log in which one key has several accepted
\* credential messages
C21_Witness ==
    /\ last.op = "GetCredentialSet"
    /\ last.err = ErrNil
    /\ \E j, k \in AcceptedCredentials :
          j # k /\ messages[j].body.PublicKey = messages[k].body.PublicKey
    /\ SetLen(last.set) < Cardinality(AcceptedCredentials)

\* the pairs of a roster, in order
Pairs(l) ==
    [i \in 1..Len(l.publicKeyHashes) |->
        <<l.publicKeyHashes[i], IdCommitment(l, l.publicKeyHashes[i])>>]

\* C22: Add returns false exactly when the key is already in the roster, and
\* then leaves the roster as it was; when it returns true the key is in the
\* roster with the commitment given; no key occurs twice in the order
C22_AddOnce ==
    /\ \A i, j \in 1..Len(list.publicKeyHashes) :
          list.publicKeyHashes[i] = list.publicKeyHashes[j] => i = j
    /\ (last.op = "Add" /\ last.err = ErrNil) =>
          /\ ~last.ok <=> Contains(last.before, last.pkh)
          /\ ~last.ok => list = last.before
          /\ last.ok =>
                /\ Contains(list, last.pkh)
                /\ IdCommitment(list, last.pkh) = [idCom |-> last.idCom, ok |-> TRUE]
                /\ list.publicKeyHashes = Append(last.before.publicKeyHashes, last.pkh)

\* Add was refused for a key that is in the roster with another commitment
C22_Witness ==
    /\ last.op = "Add"
    /\ last.err = ErrNil
    /\ ~last.ok
    /\ Len(list.publicKeyHashes) >= 2
    /\ IdCommitment(list, last.pkh).idCom # last.idCom

\* C23: decoding a roster's own encoding succeeds and gives the same pairs in
\* the same order
C23_RosterRoundTrip ==
    (last.op = "FromBytes" /\ last.p = ListBytes(last.before)) =>
        /\ last.err = ErrNil
        /\ Pairs(list) = Pairs(last.before)

\* C24: a buffer with the right magic and a key in two pairs is refused with
\* ErrDuplicateKey, a buffer with another magic with ErrUnknownMagic, and
\* neither call panics
C24_RosterRejects ==
    (last.op = "FromBytes" /\ Len(last.p) >= 4) =>
        LET mg == ReadUint32(last.p)
            pairs == mg.rest
            n == Len(pairs) \div (2 * HashSize)
            key(i) == SubSeq(pairs, (i - 1) * 2 * HashSize + 1,
                             (i - 1) * 2 * HashSize + HashSize)
        IN  /\ mg.val # ellMagic => last.err = ErrUnknownMagic
            /\ (/\ mg.val = ellMagic
                /\ Len(pairs) = n * 2 * HashSize
                /\ \E i, j \in 1..n : i # j /\ key(i) = key(j))
                  => last.err = ErrDuplicateKey

\* C25: decoding the encoding of params of version 0 succeeds and restores
\* every field, the roster's pairs in order included; params of another
\* version are refused with errUnknownVersion
C25_ParamsRoundTrip ==
    last.op = "ParamsFromBytes" =>
        /\ last.params.Version # 0 => last.err = errUnknownVersion
        /\ last.params.Version = 0 =>
              /\ last.err = ErrNil
              /\ \A f \in (DOMAIN last.params) \ {"EligibilityList"} :
                    last.decoded[f] = last.params[f]
              /\ Pairs(last.decoded.EligibilityList) = Pairs(last.params.EligibilityList)

\* the fields of an invitation fit the length of a vector
FitsVectors(inv) ==
    /\ Len(inv.Network) < MaxVector
    /\ Len(inv.Address) < MaxVector
    /\ \A i \in 1..Len(inv.Servers) : Len(inv.Servers[i]) < MaxVector

\* C26, as stated: decoding the string of an invitation with at most 255
\* servers succeeds and returns the same network, address and servers
C26_AnyInvitation ==
    (last.op = "DecodeInvitation" /\ ~last.damage /\ Len(last.inv.Servers) <= 255) =>
        /\ last.err = ErrNil
        /\ last.decoded = last.inv

\* C26: decoding the string of an invitation with at most 255 servers, whose
\* network, address and servers are each shorter than 32768 bytes, succeeds
\* and returns the same network, address and servers in the same order
C26_InvitationRoundTrip ==
    (/\ last.op = "DecodeInvitation"
     /\ ~last.damage
     /\ Len(last.inv.Servers) <= 255
     /\ FitsVectors(last.inv)) =>
        /\ last.err = ErrNil
        /\ last.decoded.Network = last.inv.Network
        /\ last.decoded.Address = last.inv.Address
        /\ last.decoded.Servers = last.inv.Servers

\* an invitation with a network, a long address and two servers was decoded
C26_Witness ==
    /\ last.op = "DecodeInvitation"
    /\ ~last.damage
    /\ last.err = ErrNil
    /\ FitsVectors(last.inv)
    /\ last.inv.Network # <<>>
    /\ Len(last.inv.Address) >= 128
    /\ Len(last.inv.Servers) = 2
    /\ last.decoded.Servers[1] # last.decoded.Servers[2]

\* C27: the bytes of a Message start with the phase byte of its variant (0
\* params, 1 credential, 2 signed ballot, 3 decryption) and go on with the
\* variant's bytes; MessageFromBytes returns a Message of the variant the
\* first byte names, ErrInvalidMessageSize for no bytes and
\* ErrInvalidMessageType for a first byte outside 0..3
C27_MessageTagging ==
    /\ last.op = "Post" =>
          /\ VariantOf(last.p[1]) = last.m.kind
          /\ last.p[1] \in 0..3
          /\ last.got.kind = last.m.kind
    /\ last.op = "PostRaw" =>
          IF Len(last.p) = 0 THEN last.err = ErrInvalidMessageSize
          ELSE IF last.p[1] \notin 0..3 THEN last.err = ErrInvalidMessageType
          ELSE last.got.kind = VariantOf(last.p[1])

\* C28: the public key of a generated key, ed25519 or Tezos, starts with the
\* byte of its key type; the string of the public key parses back to the same
\* bytes; the signature the key makes of a message verifies under the
\* public key
C28_KeyRoundTrip ==
    /\ last.op \in {"Key", "TaggedKey"} =>
          /\ last.err = ErrNil
          /\ last.type = last.keyType
          /\ last.verify = ErrNil
    /\ last.op = "TaggedKey" =>
          /\ last.parseErr = ErrNil
          /\ last.parsed = last.pub

\* C29: what BroadcastClient.Get makes of the server's answer to GET
\* /messages is the server's log: the same messages, in the same order
C29_WireAgreement ==
    last.op = "Get" => (last.err = ErrNil /\ last.msgs = last.log)

\* the payload of an entry read as the variant its kind names
Parsed(e) ==
    IF e.kind = CredGen THEN CredentialFromBytes(e.payload)
    ELSE IF e.kind = Cast THEN SignedBallotFromBytes(e.payload)
    ELSE DecryptionFromBytes(e.payload)

\* the entry parses as the variant its kind names
Parses(e) == e.kind \in {CredGen, Cast, Tally} /\ Parsed(e).err = ErrNil

\* the entries that parse, in order
Kept(entries) == SelectSeq(entries, Parses)

\* C30: Get skips an entry whose payload does not parse as its kind's
\* variant or whose kind is not that of a credential, a signed ballot or a
\* decryption; it returns every other entry, in order, and does not fail
C30_PermissiveGet ==
    last.op = "ClientGet" =>
        /\ last.err = ErrNil
        /\ Len(last.msgs) = Len(Kept(last.entries))
        /\ \A i \in 1..Len(last.msgs) :
              /\ last.msgs[i].kind = VariantOf(Kept(last.entries)[i].kind)
              /\ last.msgs[i].body = Parsed(Kept(last.entries)[i]).val

\* Get returned the two different entries before and after one whose
\* payload does not parse as a signed ballot
C30_Witness ==
    /\ last.op = "ClientGet"
    /\ last.err = ErrNil
    /\ Len(last.entries) = 3
    /\ Len(last.msgs) = 2
    /\ Parses(last.entries[1])
    /\ last.entries[2].kind = Cast
    /\ ~Parses(last.entries[2])
    /\ Parses(last.entries[3])
    /\ last.entries[1] # last.entries[3]

(* ------------------------------- C31 ---------------------------------- *)
\* the call that NewElectionFromInvitation just made
Constructed == last.op = "NewElectionFromInvitation"

\* the call reached the broadcast client: network "mock" and a server
ReachesClient == last.inv.Network = "mock" /\ Len(last.inv.Servers) > 0

\* C31: NewElectionFromInvitation returns its failures as errors: an unknown
\* network gives ErrUnknownNetwork, network "mock" without servers gives
\* ErrNoServers, and a failed construction of the broadcast client or a
\* failed fetch of the params is returned as that error, with no Election
\* and no panic
C31_ErrorsSurfaced ==
    Constructed =>
        /\ last.inv.Network # "mock" =>
              last.err = ErrUnknownNetwork /\ ~last.election
        /\ last.inv.Network = "mock" /\ Len(last.inv.Servers) = 0 =>
              last.err = ErrNoServers /\ ~last.election
        /\ ReachesClient /\ ~last.made =>
              last.err = ErrInvalidAddress /\ ~last.election
        /\ ReachesClient /\ last.made /\ last.fetch = "transport" =>
              last.err = ErrTransport /\ ~last.election
        /\ ReachesClient /\ last.made /\ last.fetch = "parse" =>
              last.err = errUnknownVersion /\ ~last.election

(* ------------------------------- C32 ---------------------------------- *)
\* the accepted credential messages of the key with hash pkh, by index
AcceptedOf(pkh) ==
    {k \in AcceptedCredentials : Hash(messages[k].body.PublicKey) = pkh}

\* the last of a non-empty set of indices
LastOf(I) == CHOOSE k \in I : \A j \in I : j <= k

\* C32: the credential the set holds for a public-key hash is that of the
\* last accepted credential message of the key in log order
C32_LastWriteWins ==
    (last.op = "GetCredentialSet" /\ last.err = ErrNil) =>
        last.set = MakeCredentialSet(
            [pkh \in last.pkhs |-> messages[LastOf(AcceptedOf(pkh))].body.Credential])

\* the set was built from a log in which one key has two accepted messages
\* with different credentials, and the set holds the later one only
C32_Witness ==
    /\ last.op = "GetCredentialSet"
    /\ last.err = ErrNil
    /\ \E j, k \in AcceptedCredentials :
          /\ j < k
          /\ messages[j].body.PublicKey = messages[k].body.PublicKey
          /\ messages[j].body.Credential # messages[k].body.Credential
          /\ k = LastOf(AcceptedOf(Hash(messages[k].body.PublicKey)))
          /\ messages[k].body.Credential \in DOMAIN last.set
          /\ messages[j].body.Credential \notin DOMAIN last.set

(* ------------------------------- C33 ---------------------------------- *)
\* the phase in which a message of a kind is to be posted
PhaseOfKind(kind) ==
    IF kind = "Credential" THEN CredGen
    ELSE IF kind = "SignedBallot" THEN Cast
    ELSE Tally

\* C33: a message that the Election API appends to the log is appended
\* while the election is in the phase of its kind, also when the clock
\* advances between the call's phase check and its post
C33_PostedInPhase ==
    [][Len(messages') > Len(messages) =>
          Phase(params, now) = PhaseOfKind(messages'[Len(messages')].kind)]_vars

(* ------------------------------- C34 ---------------------------------- *)
\* the signed ballots that Progress counts as valid over the log msgs, by
\* their place among the signed ballots
ValidOver(msgs) == Range(Progress(Phase(params, now), msgs).loop.counted)

\* C34: once the phase is past CredGen the ring is fixed: a signed ballot
\* that Progress counts as valid over a log is counted as valid over every
\* extension of the log by messages appended after cast_start
C34_RingFixed ==
    [][(Phase(params, now) > CredGen /\ Len(messages') > Len(messages)) =>
          ValidOver(messages) \subseteq ValidOver(messages')]_vars

(* ------------------------------- C35 ---------------------------------- *)
\* C35: in every result that Progress returns without error in Cast, Tally
\* or End, the count is at least 0 and at most the total
C35_CountWithinTotal ==
    ProgressRan => 0 <= last.p.Count /\ last.p.Count <= last.p.Total

(* ------------------------------- C36 ---------------------------------- *)
\* no Vote of c is under way and the latest Vote of c succeeded
VotedLast(c) == calls[c].op \notin {"VoteCreate", "Vote"} /\ calls[c].voted = "ok"

\* the ballots that the Votes of c have posted, by their place in the log
BallotsOf(c) ==
    {i \in 1..Len(messages) :
        /\ messages[i].kind = "SignedBallot"
        /\ messages[i].body.Signature.by = c}

\* C36: after a sequence of Vote calls of a client of which the last
\* succeeded, the stored solution is that of the stored ballot's VDF input,
\* the stored ballot is the one the client posted last, and the decryption
\* that RevealBallotDecryption is about to post has that ballot's input hash
C36_SolutionMatchesBallot ==
    \A c \in Actors :
        VotedLast(c) =>
            /\ secrets[c].solution.Input = secrets[c].ballot.EncryptedBallot.VdfInput
            /\ secrets[c].ballot = calls[c].posted
            /\ BallotsOf(c) # {}
            /\ messages[LastOf(BallotsOf(c))].body = secrets[c].ballot
            /\ calls[c].op = "RevealBallotDecryption" =>
                  calls[c].msg.body.InputHash =
                      Hash(secrets[c].ballot.EncryptedBallot.VdfInput)

\* a client reveals after two Votes of its own, of which the first failed
\* at the post and the second succeeded
C36_Witness ==
    \E c \in Actors :
        /\ VotedLast(c)
        /\ calls[c].op = "RevealBallotDecryption"
        /\ secrets[c].solution.Input = 2
        /\ Cardinality(BallotsOf(c)) = 1
        /\ \A d \in Actors \ {c} : secrets[d].solution = ZeroSolution

(* ------------------------------- C37 ---------------------------------- *)
\* this step is the post of the Vote of c, acknowledged or failed
VotePosts(c) == calls[c].op = "Vote" /\ calls'[c].op = "none"

\* C37: Vote posts last and reports the post: when the signed ballot is
\* posted the secrets manager already holds it and its solution, Vote
\* returns success exactly when the log has appended the ballot, a failed
\* post is returned as Vote's error, and a signed ballot enters the log by
\* no other step of Vote
C37_VotePostsLast ==
    [][/\ \A c \in Actors :
             VotePosts(c) =>
                 /\ secrets[c].ballot = calls[c].msg.body
                 /\ secrets[c].solution.Input = secrets[c].ballot.EncryptedBallot.VdfInput
                 /\ secrets' = secrets
                 /\ last'.op = "Vote"
                 /\ last'.err = ErrNil <=> messages' = Append(messages, calls[c].msg)
                 /\ messages' = messages => last'.err = ErrPost
       /\ (last'.op = "Vote" /\ last'.err = ErrNil) => \E c \in Actors : VotePosts(c)
       /\ (Len(messages') > Len(messages) /\ messages'[Len(messages')].kind = "SignedBallot")
             => \E c \in Actors : VotePosts(c)
      ]_vars

\* a Vote has returned the error of its post: the ballot and the solution
\* are stored and the log has no ballot of the client
C37_Witness ==
    /\ last.op = "Vote"
    /\ last.err = ErrPost
    /\ \E c \in Actors :
          /\ calls[c].voted = "failed"
          /\ Idle(c)
          /\ secrets[c].ballot # ZeroBallot
          /\ BallotsOf(c) = {}

(* ------------------------------- C38 ---------------------------------- *)
\* C38: Progress and GetCredentialSet are read-only: they append nothing to
\* the log and neither read nor write the secrets manager, in every phase
\* and over every log
C38_ReadOnly ==
    [][last'.op \in {"Progress", "GetCredentialSet"} =>
          /\ messages' = messages
          /\ secrets' = secrets
          /\ last'.secReads = 0
          /\ last'.secWrites = 0]_vars

\* Progress has decrypted the ballot of a client whose secrets manager holds
\* that ballot and its solution
C38_Witness ==
    /\ last.op = "Progress"
    /\ last.p.loop.validDecBallots > 0
    /\ \E c \in Clients, k \in 1..Len(last.p.loop.decrypted) :
          /\ secrets[c].ballot = last.p.signBallots[last.p.loop.decrypted[k]]
          /\ secrets[c].solution # ZeroSolution

(* ------------------------------- C39 ---------------------------------- *)
\* C39: the log is append-only: a Post that is acknowledged puts its message
\* at the end of the log and extends it by exactly one, a Post that is
\* refused and a Get leave it as it is, no step removes or rewrites an entry,
\* and Get returns the messages posted so far, each once and in post order
C39_AppendOnly ==
    [][/\ last'.op = "MockPost" =>
             last'.err = ErrNil /\ messages' = Append(messages, last'.m)
       /\ last'.op = "ServerPost" =>
             IF last'.status = 200
             THEN messages' = Append(messages, last'.got)
             ELSE messages' = messages
       /\ last'.op = "MockGet" => messages' = messages /\ last'.msgs = messages
       /\ Len(messages') \in {Len(messages), Len(messages) + 1}
       /\ SubSeq(messages', 1, Len(messages)) = messages
       /\ Len(messages') = serverPosts'
      ]_vars

\* Get has returned two different messages, one posted to the channel and
\* one through the server, in the order of their posts
C39_Witness ==
    /\ last.op = "MockGet"
    /\ Len(last.msgs) >= 2
    /\ last.msgs[1] # last.msgs[2]
    /\ last.msgs[1].kind = "SignedBallot"
    /\ last.msgs[2].kind = "ElectionParams"

====
